---- MODULE Spec2Model ----
(***************************************************************************)
(* EVAONLINE: multi-source weather acquisition, availability resolution,   *)
(* request classification and the ETo processing pipeline.                 *)
(*                                                                         *)
(* Dates are day numbers (integers); 1990-01-01 is day Date1990.           *)
(* Coordinates are in tenths of a degree, so that the Nordic box's 71.5    *)
(* degree edge is the integer 715.                                         *)
(***************************************************************************)
EXTENDS Integers, Sequences, FiniteSets, TLC

(***************************************************************************)
(* Bounds of the model and the test clock.                                 *)
(***************************************************************************)
\* datetime.now().date() on the test clock, as a day number
Today == 100
\* the resolver/classifier inputs range over Today-MaxPast .. Today+MaxFuture
MaxPast == 32
MaxFuture == 7
\* day number of 1990-01-01
Date1990 == 0

Sources == {"nasa_power", "openmeteo_archive", "openmeteo_forecast",
            "met_norway", "nws_forecast", "nws_stations"}

DataTypes == {"historical", "forecast"}

\* dates on which the resolver and the classifier are exercised
AvailDates == {Date1990 - 1, Date1990} \cup ((Today - MaxPast)..(Today + MaxFuture))

\* offsets from today of the dates a download request is made for: both sides
\* of every bound the code compares against (-30, -25, -2, -1, 0, +5)
RelDays == {-31, -30, -26, -25, -8, -6, -2, -1, 0, 1, 5, 6}

\* dates of download requests; Date1990 - 1 lies before every source's start
DlDates == {Date1990 - 1} \cup {Today + d : d \in RelDays}

\* sample coordinates: inside the USA box, on its corner, just north of it,
\* inside the Nordic box, and far from both (Brasilia)
PointUSA == [lat |-> 400, lon |-> -1000]
PointUSACorner == [lat |-> 490, lon |-> -660]
PointNorthOfUSA == [lat |-> 491, lon |-> -1000]
PointNordic == [lat |-> 600, lon |-> 100]
PointBrasilia == [lat |-> -158, lon |-> -480]
\* on the north-east corner of the Nordic box, and just east of it
PointNordicCorner == [lat |-> 715, lon |-> 310]
PointEastOfNordic == [lat |-> 715, lon |-> 311]
Points == {PointUSA, PointUSACorner, PointNorthOfUSA, PointNordic, PointBrasilia,
           PointNordicCorner, PointEastOfNordic}
\* a latitude outside [-90, 90]
PointInvalid == [lat |-> 910, lon |-> 0]
DlPoints == {PointUSA, PointNordic, PointBrasilia, PointInvalid, PointEastOfNordic}

(***************************************************************************)
(* SourceCatalog: ClimateSourceAvailability.API_LIMITS and the boxes.      *)
(***************************************************************************)
API_LIMITS ==
  [s \in Sources |->
     CASE s = "nasa_power" ->
            [type |-> "historical", start_date |-> Date1990,
             end_date_offset |-> -2, coverage |-> "global"]
       [] s = "openmeteo_archive" ->
            [type |-> "historical", start_date |-> Date1990,
             end_date_offset |-> -2, coverage |-> "global"]
       [] s = "openmeteo_forecast" ->
            [type |-> "forecast", start_date_offset |-> -30,
             end_date_offset |-> 5, coverage |-> "global"]
       [] s = "met_norway" ->
            [type |-> "forecast", start_date_offset |-> 0,
             end_date_offset |-> 5, coverage |-> "global"]
       [] s = "nws_forecast" ->
            [type |-> "forecast", start_date_offset |-> 0,
             end_date_offset |-> 5, coverage |-> "usa"]
       [] s = "nws_stations" ->
            [type |-> "realtime", start_date_offset |-> -1,
             end_date_offset |-> 0, coverage |-> "usa"]]

USA_BBOX == [lon_min |-> -1250, lon_max |-> -660, lat_min |-> 240, lat_max |-> 490]

NORDIC_BBOX == [lon_min |-> 40, lon_max |-> 310, lat_min |-> 540, lat_max |-> 715]

is_in_usa(lat, lon) ==
  /\ USA_BBOX.lon_min <= lon /\ lon <= USA_BBOX.lon_max
  /\ USA_BBOX.lat_min <= lat /\ lat <= USA_BBOX.lat_max

is_in_nordic(lat, lon) ==
  /\ NORDIC_BBOX.lon_min <= lon /\ lon <= NORDIC_BBOX.lon_max
  /\ NORDIC_BBOX.lat_min <= lat /\ lat <= NORDIC_BBOX.lat_max

(***************************************************************************)
(* AvailabilityResolver: ClimateSourceAvailability.get_available_sources.  *)
(***************************************************************************)
\* api_start / api_end: the source's resolved bound for today
ApiStart(s) ==
  IF API_LIMITS[s].type = "historical"
    THEN API_LIMITS[s].start_date
    ELSE Today + API_LIMITS[s].start_date_offset

ApiEnd(s) == Today + API_LIMITS[s].end_date_offset

\* step 1: geographic coverage
GeoReasons(s, lat, lon) ==
  IF API_LIMITS[s].coverage = "usa" /\ ~is_in_usa(lat, lon)
    THEN <<"outside_usa">> ELSE <<>>

\* a plausible slip: the historical mode does not filter by type
TypeReasonsNoHistoricalFilter(s, end_date, data_type) ==
  IF data_type = "historical"
    THEN <<>>
    ELSE IF API_LIMITS[s].type = "historical" /\ ~(end_date < Today)
           THEN <<"historical_no_future">> ELSE <<>>

\* step 2: type compatibility
TypeReasons(s, end_date, data_type) ==
  IF data_type = "historical"
    THEN IF API_LIMITS[s].type # "historical" THEN <<"not_historical">> ELSE <<>>
    ELSE IF API_LIMITS[s].type = "historical" /\ ~(end_date < Today)
           THEN <<"historical_no_future">> ELSE <<>>

\* a plausible slip: the end bound is not checked
TemporalReasonsNoEnd(s, start_date, end_date) ==
  IF start_date < ApiStart(s) THEN <<"start_before">> ELSE <<>>

\* step 3: temporal limits (evaluated only while the source is still available)
TemporalReasons(s, start_date, end_date) ==
  (IF start_date < ApiStart(s) THEN <<"start_before">> ELSE <<>>)
  \o (IF end_date > ApiEnd(s) THEN <<"end_after">> ELSE <<>>)

\* step 4: variables of an available source
AvailVariables(s, lat, lon) ==
  IF s = "met_norway"
    THEN IF is_in_nordic(lat, lon)
           THEN {"air_temperature", "relative_humidity", "wind_speed",
                 "precipitation_amount"}
           ELSE {"air_temperature", "relative_humidity", "wind_speed"}
    ELSE {"all"}

SourceVerdict(s, start_date, end_date, lat, lon, data_type) ==
  LET r12 == GeoReasons(s, lat, lon) \o TypeReasons(s, end_date, data_type)
      r3 == IF r12 = <<>> THEN TemporalReasons(s, start_date, end_date) ELSE <<>>
      available == (r12 \o r3) = <<>>
  IN [available |-> available,
      variables |-> IF available THEN AvailVariables(s, lat, lon) ELSE {},
      type |-> API_LIMITS[s].type,
      coverage |-> API_LIMITS[s].coverage,
      reason |-> (r12 \o r3)
                 \o (IF available
                       THEN IF s = "met_norway"
                              THEN IF is_in_nordic(lat, lon)
                                     THEN <<"nordic_all">> ELSE <<"no_precip">>
                              ELSE <<"all_variables">>
                       ELSE <<>>)]

get_available_sources(start_date, end_date, lat, lon, data_type) ==
  [s \in Sources |-> SourceVerdict(s, start_date, end_date, lat, lon, data_type)]

get_compatible_sources_list(start_date, end_date, lat, lon, data_type) ==
  {s \in Sources :
     get_available_sources(start_date, end_date, lat, lon, data_type)[s].available}

(***************************************************************************)
(* RequestClassifier: classify_request_type.                               *)
(***************************************************************************)
\* a plausible slip: strict comparison against the 30-day threshold
classify_strict_threshold(start_date, end_date) ==
  IF end_date > Today THEN "forecast"
  ELSE IF start_date < Today - 30 THEN "historical"
  ELSE "current"

classify_request_type(start_date, end_date) ==
  LET threshold == Today - 30
  IN IF end_date > Today THEN "forecast"
     ELSE IF start_date <= threshold THEN "historical"
     ELSE "current"

(***************************************************************************)
(* DownloadCoordinator: download_weather_data.                             *)
(***************************************************************************)
ValidSources ==
  {"openmeteo_archive", "openmeteo_forecast", "nasa_power", "nws_forecast",
   "nws_stations", "met_norway", "data fusion"}

\* ClimateSourceManager.get_available_sources_for_location(lat, lon): the
\* sources whose geographic coverage contains the coordinate
AvailableSourceIds(lat, lon) ==
  {s \in Sources : API_LIMITS[s].coverage = "usa" => is_in_usa(lat, lon)}

PeriodDays(start_date, end_date) == end_date - start_date + 1

\* request-level validation: "ok" or the ValueError raised
DownloadValidation(start_date, end_date, lat, lon) ==
  LET period_days == PeriodDays(start_date, end_date)
      request_type == classify_request_type(start_date, end_date)
  IN IF ~(-900 <= lat /\ lat <= 900) THEN "latitude"
     ELSE IF ~(-1800 <= lon /\ lon <= 1800) THEN "longitude"
     ELSE IF end_date < start_date THEN "date_order"
     ELSE IF period_days < 1 THEN "period_min"
     ELSE IF request_type \in {"historical", "current"} /\ start_date > Today
       THEN "future_start"
     ELSE IF request_type = "historical" /\ ~(1 <= period_days /\ period_days <= 90)
       THEN "historical_period"
     ELSE IF request_type = "current" /\ ~(7 <= period_days /\ period_days <= 30)
       THEN "current_period"
     ELSE IF request_type = "forecast" /\ end_date > Today + 5
       THEN "forecast_end"
     ELSE IF request_type = "forecast" /\ start_date < Today - 25
       THEN "forecast_start"
     ELSE "ok"

\* a plausible slip: the current class gets the forecast candidates
PossibleSourcesCurrentAsForecast(request_type) ==
  CASE request_type = "historical" -> <<"nasa_power", "openmeteo_archive">>
    [] OTHER -> <<"openmeteo_forecast", "met_norway", "nws_forecast">>

\* candidate set of the pseudo-source "data fusion", in iteration order
PossibleSources(request_type) ==
  CASE request_type = "historical" -> <<"nasa_power", "openmeteo_archive">>
    [] request_type = "current" ->
         <<"openmeteo_archive", "nasa_power", "met_norway", "nws_forecast",
           "openmeteo_forecast", "nws_stations">>
    [] request_type = "forecast" ->
         <<"openmeteo_forecast", "met_norway", "nws_forecast">>

\* sets of sources the manager may leave out of its answer when called with
\* exclude_non_commercial=True: none, the Open-Meteo pair, or all of them
NonCommercialChoices ==
  {{}, {"openmeteo_archive", "openmeteo_forecast"}, Sources}

\* validation of the requested names and the list of sources to query;
\* avail is available_source_ids
SourceSelection(requested, request_type, avail) ==
  LET InAvail(x) == x \in avail
      Bad(i) == \/ requested[i] \notin ValidSources
                \/ (requested[i] # "data fusion" /\ requested[i] \notin avail)
      bad == {i \in 1..Len(requested) : Bad(i)}
      first == CHOOSE i \in bad : \A j \in bad : i <= j
  IN IF bad # {}
       THEN [error |-> IF requested[first] \notin ValidSources
                         THEN "invalid_source" ELSE "source_unavailable",
             sources |-> <<>>]
     ELSE IF \E i \in 1..Len(requested) : requested[i] = "data fusion"
       THEN LET chosen == SelectSeq(PossibleSources(request_type), InAvail)
            IN [error |-> IF chosen = <<>> THEN "no_source_for_type" ELSE "none",
                sources |-> chosen]
     ELSE [error |-> "none", sources |-> SelectSeq(requested, InAvail)]

Warn(src, kind) == [src |-> src, kind |-> kind]

\* per-source window rules (before the end-date adjustment): the ValueError
\* raised, or the warnings appended and data_final_adjusted
SourceWindowRules(source, start_date, end_date) ==
  CASE source = "nasa_power" ->
         IF start_date < Date1990
           THEN [error |-> "nasa_start", warnings |-> <<>>, adjusted |-> end_date]
         ELSE IF end_date > Today
           THEN [error |-> "none", warnings |-> <<Warn(source, "truncate")>>,
                 adjusted |-> Today]
         ELSE [error |-> "none", warnings |-> <<>>, adjusted |-> end_date]
    [] source = "openmeteo_archive" ->
         IF start_date < Date1990
           THEN [error |-> "archive_start", warnings |-> <<>>, adjusted |-> end_date]
         ELSE IF end_date > Today - 2
           THEN [error |-> "none", warnings |-> <<Warn(source, "truncate")>>,
                 adjusted |-> Today - 2]
         ELSE [error |-> "none", warnings |-> <<>>, adjusted |-> end_date]
    [] source = "openmeteo_forecast" ->
         IF start_date < Today - 25
           THEN [error |-> "forecast_start", warnings |-> <<>>, adjusted |-> end_date]
         ELSE IF end_date > Today + 5
           THEN [error |-> "forecast_end", warnings |-> <<>>, adjusted |-> end_date]
         ELSE [error |-> "none", warnings |-> <<>>, adjusted |-> end_date]
    [] source \in {"met_norway", "nws_forecast"} ->
         IF start_date < Today
           THEN [error |-> "no_history", warnings |-> <<>>, adjusted |-> end_date]
         ELSE IF end_date > Today + 5
           THEN [error |-> "forecast_end", warnings |-> <<>>, adjusted |-> end_date]
         ELSE [error |-> "none", warnings |-> <<>>, adjusted |-> end_date]
    [] source = "nws_stations" ->
         IF start_date < Today - 1
           THEN [error |-> "stations_start", warnings |-> <<>>, adjusted |-> end_date]
         ELSE IF end_date > Today
           THEN [error |-> "stations_end", warnings |-> <<>>, adjusted |-> end_date]
         ELSE [error |-> "none", warnings |-> <<>>, adjusted |-> end_date]

Min(a, b) == IF a <= b THEN a ELSE b

\* the end-date adjustment that follows the rules: data_final_adjusted is
\* reassigned for every source, and NASA POWER gets a second warning
AdjustEnd(source, end_date) ==
  LET adjusted == IF source = "nasa_power" THEN Min(end_date, Today) ELSE end_date
  IN [adjusted |-> adjusted,
      warnings |-> IF adjusted < end_date /\ source = "nasa_power"
                     THEN <<Warn(source, "truncated_to")>> ELSE <<>>]

\* the whole per-source validation step
SourceValidation(source, start_date, end_date) ==
  LET rules == SourceWindowRules(source, start_date, end_date)
      adj == AdjustEnd(source, end_date)
  IN IF rules.error # "none"
       THEN [error |-> rules.error, warnings |-> <<>>, adjusted |-> end_date]
       ELSE [error |-> "none", warnings |-> rules.warnings \o adj.warnings,
             adjusted |-> adj.adjusted]

\* the end date each adapter call is given: openmeteo_forecast passes the
\* requested end date, the others data_final_adjusted
FetchEnd(source, end_date, adjusted) ==
  IF source = "openmeteo_forecast" THEN end_date ELSE adjusted

\* sources whose adapter is health-checked before the fetch
HealthChecked == {"met_norway", "nws_forecast", "nws_stations"}

\* what an adapter call can produce
RowOutcomes == {"full", "full_sparse", "short_tail", "gap", "all_missing"}
FailOutcomes == {"empty", "raise_value", "raise_other"}
FetchOutcomes == RowOutcomes \cup FailOutcomes

\* dates of the rows an adapter returns for a fetch of [s, e]
RowDates(outcome, s, e) ==
  CASE outcome \in {"full", "full_sparse", "all_missing"} -> s..e
    [] outcome = "short_tail" -> s..(e - 1)
    [] outcome = "gap" -> (s..e) \ {s + 1}
    [] OTHER -> {}

\* dates left after the sentinel replacement and dropna(how="all")
UsableDates(outcome, s, e) ==
  IF outcome = "all_missing" THEN {} ELSE RowDates(outcome, s, e)

SetMax(S) == CHOOSE x \in S : \A y \in S : y <= x
SetMin(S) == CHOOSE x \in S : \A y \in S : x <= y

\* a plausible slip: the adapter's failure is logged but not added to the
\* warning list
FailureWarningsNone(source, outcome) == <<>>

\* warning appended when the adapter yields no table (health check failed,
\* nothing returned, or an exception)
FailureWarnings(source, outcome) ==
  CASE outcome = "health_false" -> <<Warn(source, "health")>>
    [] outcome = "health_raises" -> <<Warn(source, "error")>>
    [] outcome = "empty" ->
         IF source = "nasa_power"
           THEN <<Warn(source, "error")>>      \* KeyError on the empty frame
           ELSE <<Warn(source, "no_data")>>
    [] outcome = "raise_value" ->
         IF source \in HealthChecked
           THEN <<Warn(source, "coverage")>>
           ELSE <<Warn(source, "error")>>
    [] outcome = "raise_other" -> <<Warn(source, "error")>>

\* warnings appended for a table that was obtained
TableWarnings(source, outcome, s, e, period_days) ==
  LET usable == UsableDates(outcome, s, e)
      dias_retornados == SetMax(usable) - SetMin(usable) + 1
  IN (IF source = "met_norway" THEN <<Warn(source, "attribution")>> ELSE <<>>)
     \o (IF usable # {} /\ dias_retornados < period_days
           THEN <<Warn(source, "shortfall")>> ELSE <<>>)
     \o (IF outcome = "full_sparse" THEN <<Warn(source, "missing_pct")>> ELSE <<>>)

RECURSIVE ConcatLast(_)
\* a plausible slip: index.duplicated(keep="last")
ConcatLast(tables) ==
  IF tables = <<>> THEN {}
  ELSE LET rest == ConcatLast(Tail(tables))
           head == {[date |-> d, source |-> tables[1].source] : d \in tables[1].dates}
       IN rest \cup {r \in head : \A x \in rest : x.date # r.date}

RECURSIVE ConcatFirst(_)
\* pd.concat followed by index.duplicated(keep="first"): per date, the row of
\* the earliest table that has it
ConcatFirst(tables) ==
  IF tables = <<>> THEN {}
  ELSE LET head == {[date |-> d, source |-> tables[1].source] : d \in tables[1].dates}
           rest == ConcatFirst(Tail(tables))
       IN head \cup {r \in rest : r.date \notin tables[1].dates}

(***************************************************************************)
(* METNorwayClient: regional variables, and the columns of each table.     *)
(***************************************************************************)
MET_NORDIC_BBOX == [lon_min |-> 40, lon_max |-> 310, lat_min |-> 540, lat_max |-> 715]

is_in_nordic_region(lat, lon) ==
  /\ MET_NORDIC_BBOX.lon_min <= lon /\ lon <= MET_NORDIC_BBOX.lon_max
  /\ MET_NORDIC_BBOX.lat_min <= lat /\ lat <= MET_NORDIC_BBOX.lat_max

NORDIC_VARIABLES ==
  {"air_temperature_max", "air_temperature_min", "air_temperature_mean",
   "precipitation_sum", "relative_humidity_mean"}

GLOBAL_VARIABLES ==
  {"air_temperature_max", "air_temperature_min", "air_temperature_mean",
   "relative_humidity_mean"}

\* a plausible slip: the region is ignored
get_recommended_variables_all(lat, lon) == NORDIC_VARIABLES

get_recommended_variables(lat, lon) ==
  IF is_in_nordic_region(lat, lon) THEN NORDIC_VARIABLES ELSE GLOBAL_VARIABLES

NasaColumns ==
  {"T2M_MAX", "T2M_MIN", "T2M", "RH2M", "WS2M", "ALLSKY_SFC_SW_DWN", "PRECTOTCORR"}

OpenMeteoColumns ==
  {"temperature_2m_max", "temperature_2m_min", "temperature_2m_mean",
   "relative_humidity_2m_mean", "wind_speed_2m_mean", "shortwave_radiation_sum",
   "precipitation_sum"}

\* columns of the table download_weather_data builds for a source
TableColumns(source, lat, lon) ==
  CASE source = "nasa_power" -> NasaColumns
    [] source = "openmeteo_archive" -> OpenMeteoColumns \cup NasaColumns
    [] source = "openmeteo_forecast" ->
         OpenMeteoColumns \cup ((NasaColumns \ {"T2M"}) \cup {"T2M_MEAN"})
    [] source = "met_norway" ->
         {"temperature_2m_max", "temperature_2m_min", "temperature_2m_mean",
          "relative_humidity_2m_mean"}
         \cup (IF "precipitation_sum" \in get_recommended_variables(lat, lon)
                 THEN {"precipitation_sum"} ELSE {})
    [] source = "nws_forecast" ->
         {"temperature_2m_max", "temperature_2m_min", "temperature_2m_mean",
          "relative_humidity_2m_mean", "wind_speed_10m_max", "wind_speed_10m_mean",
          "precipitation_sum"}
    [] source = "nws_stations" ->
         {"temp_celsius", "humidity_percent", "wind_speed_ms", "precipitation_mm"}

(***************************************************************************)
(* EToCalculationService: _validate_measurements and calculate_et0.        *)
(* Temperatures in degrees, humidity in percent, coordinates in tenths of  *)
(* a degree, ET0 in hundredths of a millimetre per day.                    *)
(***************************************************************************)
\* a float that is not a number
NaN == -99999

\* float comparisons: every comparison with a NaN is false
FLt(a, b) == a # NaN /\ b # NaN /\ a < b
FLe(a, b) == a # NaN /\ b # NaN /\ a <= b
FGt(a, b) == a # NaN /\ b # NaN /\ a > b

required_vars ==
  <<"T2M_MAX", "T2M_MIN", "T2M_MEAN", "RH2M", "WS2M", "PRECTOTCORR",
    "ALLSKY_SFC_SW_DWN", "latitude", "longitude", "date", "elevation_m">>

ValueError(fields) == [type |-> "ValueError", fields |-> fields]

\* _validate_measurements returned without raising
NoError == [type |-> "none", fields |-> <<>>]

\* _validate_measurements: NoError, or the ValueError raised and the fields its
\* message names
validate_measurements(measurements) ==
  LET present == DOMAIN measurements
      NotPresent(var) == var \notin present
      missing_vars == SelectSeq(required_vars, NotPresent)
  IN IF missing_vars # <<>> THEN ValueError(missing_vars)
     ELSE IF ~(FLe(-900, measurements["latitude"]) /\ FLe(measurements["latitude"], 900))
       THEN ValueError(<<"latitude">>)
     ELSE IF ~(FLe(-1800, measurements["longitude"])
               /\ FLe(measurements["longitude"], 1800))
       THEN ValueError(<<"longitude">>)
     ELSE IF FLt(measurements["elevation_m"], -500)
             \/ FGt(measurements["elevation_m"], 9000)
       THEN ValueError(<<"elevation_m">>)
     ELSE IF ~(FLe(0, measurements["RH2M"]) /\ FLe(measurements["RH2M"], 100))
       THEN ValueError(<<"RH2M">>)
     ELSE IF FLt(measurements["WS2M"], 0) THEN ValueError(<<"WS2M">>)
     ELSE IF FLt(measurements["T2M_MAX"], measurements["T2M_MIN"])
       THEN ValueError(<<"T2M_MAX", "T2M_MIN">>)
     ELSE NoError

\* steps 2-4 of calculate_et0 on floats, given what the FAO-56 expressions
\* evaluate to: pm.raises (an expression raised, e.g. acos outside [-1, 1] or a
\* date that does not parse), pm.numerator and pm.denominator otherwise.
\* The result is the unclamped ET0, NaN for a zero denominator.
PenmanMonteith(measurements, pm) ==
  IF pm.denominator = 0 THEN NaN
  ELSE IF pm.numerator = NaN \/ measurements["T2M_MAX"] = NaN THEN NaN
  ELSE (pm.numerator * 100) \div pm.denominator

Max(a, b) == IF a >= b THEN a ELSE b

\* a plausible slip: 15 mm/day itself counts as implausible
QualityCheckInclusive(ET0) ==
  LET low == FLt(ET0, 0) \/ ~FLt(ET0, 1500) \/ ET0 = NaN
      value == IF ET0 = NaN THEN 0 ELSE ET0
  IN [et0_mm_day |-> Max(0, value), quality |-> IF low THEN "low" ELSE "high"]

\* step 5 of calculate_et0 and the clamp of the return statement
QualityCheck(ET0) ==
  LET low == FLt(ET0, 0) \/ FGt(ET0, 1500) \/ ET0 = NaN
      value == IF ET0 = NaN THEN 0 ELSE ET0
  IN [et0_mm_day |-> Max(0, value), quality |-> IF low THEN "low" ELSE "high"]

\* a plausible slip: calculate_et0 without its try/except, so that the
\* exception leaves it
calculate_et0_unguarded(measurements, pm) ==
  LET v == validate_measurements(measurements)
  IN IF v # NoError
       THEN [outcome |-> "raised", arithmetic |-> FALSE,
             result |-> [et0_mm_day |-> 0, quality |-> "low", error |-> v]]
     ELSE IF pm.raises
       THEN [outcome |-> "raised", arithmetic |-> TRUE,
             result |-> [et0_mm_day |-> 0, quality |-> "low",
                         error |-> [type |-> "Exception", fields |-> <<>>]]]
     ELSE [outcome |-> "returned", arithmetic |-> TRUE,
           result |-> QualityCheck(PenmanMonteith(measurements, pm))]

\* calculate_et0: what the caller gets. outcome is "returned" in every branch:
\* the except clause turns every exception into a low-quality result.
\* arithmetic counts the FAO-56 steps that ran (a ghost of the execution).
calculate_et0(measurements, pm) ==
  LET v == validate_measurements(measurements)
  IN IF v # NoError
       THEN [outcome |-> "returned", arithmetic |-> FALSE,
             result |-> [et0_mm_day |-> 0, quality |-> "low", error |-> v]]
     ELSE IF pm.raises
       THEN [outcome |-> "returned", arithmetic |-> TRUE,
             result |-> [et0_mm_day |-> 0, quality |-> "low",
                         error |-> [type |-> "Exception", fields |-> <<>>]]]
     ELSE [outcome |-> "returned", arithmetic |-> TRUE,
           result |-> QualityCheck(PenmanMonteith(measurements, pm))]

(***************************************************************************)
(* State.                                                                  *)
(***************************************************************************)
VARIABLES
  probe,       \* input of a resolver / classifier evaluation
  verdicts,    \* result of get_available_sources on probe; <<>> before the call
  klass,       \* result of classify_request_type on probe, or "none"
  req,         \* arguments of download_weather_data
  pc,          \* position of the request in the code
  request_type,          \* download_weather_data: request_type, or "none"
  available_source_ids,  \* download_weather_data: available_source_ids
  sources,               \* download_weather_data: sources (list to query)
  idx,                   \* 1-based position of the loop over sources
  fetch_end,             \* data_final_adjusted of the current source
  fetches,               \* adapter calls issued: [source, start, end]
  fetch_log,             \* order of adapter calls and their returns
  outcomes,              \* per processed source, what its adapter produced
  warnings_list,         \* download_weather_data: warnings_list
  weather_data_sources,  \* download_weather_data: weather_data_sources
  weather_data,          \* consolidated table: rows [date, source]
  dl_error,              \* exception raised by download_weather_data, or "none"
  http,                    \* EToCalculationRequest of POST /calculate
  pl_invoked,              \* process_location has been called
  preprocessing_warnings,  \* process_location: preprocessing_warnings
  fusion_warnings,         \* process_location: fusion_warnings
  engine_raises,           \* dates on which the fusion engine raised in this run
  weather_data_fused,      \* process_location: weather_data_fused
  raw_data_list,           \* process_location: raw_data_list, raw_data by row name
  et0_series,              \* process_location: et0_series, rows [date, et0_mm_day, quality]
  pl_result,               \* dict returned by process_location; <<>> before
  response,                \* what /calculate answers; <<>> before
  measurements,            \* calculate_et0: the measurements argument
  pm,                      \* what the FAO-56 expressions evaluate to on them
  et0_result,              \* what calculate_et0 gave its caller; <<>> before
  anomaly_input,           \* detect_anomalies: et0 and historical_normal
  anomaly,                 \* what detect_anomalies returned; <<>> before
  met_cache,               \* METNorwayClient.cache: cache key -> METNorwayCacheMetadata
  met_now,                 \* datetime.now(), in ticks
  met_calls,               \* get_daily_forecast calls finished so far
  met_pc,                  \* get_daily_forecast: "idle", "request", "delay", "done"
  met_call,                \* get_daily_forecast: arguments and locals of the call
  attempt,                 \* get_daily_forecast: attempt of the retry loop
  http_requests,           \* self.client.get calls made by the current call
  met_result,              \* what the call returned or raised; NoResult before
  met_response,            \* kind and status of the last self.client.get outcome
  raw_data,                \* harmonization: the record handed in
  source_api,              \* harmonization: the source the record is said to come from
  api_variables,           \* harmonization: state of the api_variables table
  harmonizer,              \* harmonization: the step applied, or "none"
  harmonized,              \* harmonization: results of the applications so far
  hourly_data,             \* NWS forecast: hourly records handed to the aggregation
  daily_data,              \* NWS forecast: days returned by the aggregation
  nws_pc,                  \* NWS forecast: "idle" or "done"
  elevation,               \* elevation argument of the pipeline, or None
  entry_point,             \* "process_location" or "process_location_with_sources"
  fused_dates,             \* dates of the rows the pipeline iterates over
  engine_calls             \* measurements handed to calculate_et0, with the outcome

availVars == <<probe, verdicts, klass>>
dlVars == <<req, pc, request_type, available_source_ids, sources, idx, fetch_end, fetches, fetch_log,
            outcomes, warnings_list, weather_data_sources, weather_data, dl_error>>
dlVars_but_pc == <<req, request_type, available_source_ids, sources, idx, fetch_end, fetches, fetch_log,
                   outcomes, warnings_list, weather_data_sources, weather_data,
                   dl_error>>
plVars == <<http, pl_invoked, preprocessing_warnings, fusion_warnings,
            engine_raises, weather_data_fused, raw_data_list, et0_series,
            pl_result, response>>
etVars == <<measurements, pm, et0_result, anomaly_input, anomaly>>
metVars == <<met_cache, met_now, met_calls, met_pc, met_call, attempt, http_requests,
             met_result, met_response>>
hzVars == <<raw_data, source_api, api_variables, harmonizer, harmonized>>
nwsVars == <<hourly_data, daily_data, nws_pc>>
elVars == <<elevation, entry_point, fused_dates, engine_calls>>
fnVars == <<hzVars, nwsVars, elVars>>
vars == <<availVars, dlVars, plVars, etVars, metVars, fnVars, fnVars>>

\* values of the variables a specification does not use
IdleAvail ==
  /\ probe = [start |-> Today, end |-> Today, point |-> PointUSA,
              data_type |-> "forecast"]
  /\ verdicts = <<>>
  /\ klass = "none"

DlStart ==
  /\ request_type = "none"
  /\ available_source_ids = {}
  /\ sources = <<>>
  /\ idx = 0
  /\ fetch_end = 0
  /\ fetches = <<>>
  /\ fetch_log = <<>>
  /\ outcomes = <<>>
  /\ warnings_list = <<>>
  /\ weather_data_sources = <<>>
  /\ weather_data = {}
  /\ dl_error = "none"

IdleRequest ==
  req = [start |-> Today, end |-> Today, point |-> PointUSA,
         requested |-> <<"data fusion">>]

PlStart ==
  /\ pl_invoked = FALSE
  /\ preprocessing_warnings = <<>>
  /\ fusion_warnings = <<>>
  /\ engine_raises = {}
  /\ weather_data_fused = {}
  /\ raw_data_list = {}
  /\ et0_series = {}
  /\ pl_result = <<>>
  /\ response = <<>>

IdlePipeline ==
  /\ http = [start |-> Today, end |-> Today, point |-> PointUSA,
             period_type |-> "dashboard", sources |-> "auto"]
  /\ PlStart

\* the EToInput of the spec's worked example, in the model's units
ExampleInput ==
  [T2M_MAX |-> 28, T2M_MIN |-> 18, T2M_MEAN |-> 23, RH2M |-> 65, WS2M |-> 2,
   PRECTOTCORR |-> 5, ALLSKY_SFC_SW_DWN |-> 22, elevation_m |-> 1000,
   latitude |-> -158, longitude |-> -480, date |-> Today]

ExamplePm == [raises |-> FALSE, numerator |-> 45, denominator |-> 10]

\* a historical_normal that is None
NoNormal == [k \in {} |-> 0]

IdleAnomaly ==
  /\ anomaly_input = [et0 |-> 450, historical_normal |-> NoNormal]
  /\ anomaly = <<>>

IdleCalculation ==
  /\ measurements = ExampleInput
  /\ pm = ExamplePm
  /\ et0_result = <<>>

\* cache key -> entry, with no entry
EmptyCache == [k \in {} |-> 0]

\* get_daily_forecast has neither returned nor raised
NoResult == [kind |-> "none", data |-> {}, error |-> "none"]

\* no get_daily_forecast call is running
NoCall == [k \in {} |-> 0]

\* no request has been answered in the current call
NoResponse == [kind |-> "none", status |-> 0]

IdleMet ==
  /\ met_response = NoResponse
  /\ met_cache = EmptyCache
  /\ met_now = 0
  /\ met_calls = 0
  /\ met_pc = "idle"
  /\ met_call = NoCall
  /\ attempt = 0
  /\ http_requests = 0
  /\ met_result = NoResult

\* no record handed to a harmonization step
NoRecord == [k \in {} |-> 0]

IdleHarmonization ==
  /\ raw_data = NoRecord
  /\ source_api = "none"
  /\ api_variables = "none"
  /\ harmonizer = "none"
  /\ harmonized = <<>>

IdleNws ==
  /\ hourly_data = {}
  /\ daily_data = <<>>
  /\ nws_pc = "idle"

IdleElevation ==
  /\ elevation = 0
  /\ entry_point = "none"
  /\ fused_dates = {}
  /\ engine_calls = {}

IdleFn == IdleHarmonization /\ IdleNws /\ IdleElevation

IdleEt0 == IdleCalculation /\ IdleAnomaly /\ IdleMet /\ IdleFn

IdleDownload ==
  /\ IdleRequest
  /\ pc = "idle"
  /\ DlStart
  /\ IdlePipeline
  /\ IdleEt0

(***************************************************************************)
(* Resolver and classifier evaluated on bounded inputs.                    *)
(***************************************************************************)
InitAvail ==
  /\ probe \in [start : AvailDates, end : AvailDates, point : Points,
                data_type : DataTypes]
  /\ verdicts = <<>>
  /\ klass = "none"
  /\ IdleDownload

ResolveAvailability ==
  /\ DOMAIN verdicts = {}
  /\ verdicts' = get_available_sources(probe.start, probe.end, probe.point.lat,
                                       probe.point.lon, probe.data_type)
  /\ UNCHANGED <<probe, klass, dlVars, plVars, etVars, metVars, fnVars>>

ClassifyRequest ==
  /\ klass = "none"
  /\ klass' = classify_request_type(probe.start, probe.end)
  /\ UNCHANGED <<probe, verdicts, dlVars, plVars, etVars, metVars, fnVars>>

NextAvail == ResolveAvailability \/ ClassifyRequest

SpecAvail == InitAvail /\ [][NextAvail]_vars

(***************************************************************************)
(* download_weather_data, step by step.                                    *)
(***************************************************************************)
\* bound on the number of names in a requested source list
MaxRequested == 2

\* non-empty sequences of at most n distinct elements of S
DistinctSeqs(S, n) ==
  {q \in UNION {[1..k -> S] : k \in 1..n} :
     \A i, j \in DOMAIN q : i # j => q[i] # q[j]}

\* requested source lists: explicit lists of sources, the pseudo-source alone
\* or after a concrete source, and a name that is not a valid source
RequestedLists ==
  DistinctSeqs(Sources, MaxRequested)
  \cup {<<"data fusion">>, <<"nasa_power", "data fusion">>, <<"bogus">>}

InitDownload ==
  /\ IdleAvail
  /\ req \in [start : DlDates, end : DlDates, point : DlPoints,
              requested : RequestedLists]
  /\ pc = "dl_validate"
  /\ DlStart
  /\ IdlePipeline
  /\ IdleEt0

Raise(err) ==
  /\ pc' = "dl_raised"
  /\ dl_error' = err

\* lines 83-159: coordinates, dates, classification, period
DlValidate ==
  /\ pc = "dl_validate"
  /\ LET v == DownloadValidation(req.start, req.end, req.point.lat, req.point.lon)
     IN IF v # "ok"
          THEN Raise(v) /\ UNCHANGED request_type
          ELSE /\ request_type' = classify_request_type(req.start, req.end)
               /\ pc' = "dl_select"
               /\ UNCHANGED dl_error
  /\ UNCHANGED <<availVars, etVars, metVars, fnVars, plVars, req, available_source_ids,
                 sources, idx, fetch_end, fetches, fetch_log,
                 outcomes, warnings_list, weather_data_sources, weather_data>>

\* lines 161-266: available sources, requested names, list to query
DlSelectSources ==
  /\ pc = "dl_select"
  /\ \E excluded \in NonCommercialChoices :
       LET avail == AvailableSourceIds(req.point.lat, req.point.lon) \ excluded
           sel == SourceSelection(req.requested, request_type, avail)
       IN /\ available_source_ids' = avail
          /\ IF sel.error # "none"
               THEN Raise(sel.error) /\ UNCHANGED <<sources, idx>>
               ELSE /\ sources' = sel.sources
                    /\ idx' = 1
                    /\ pc' = "dl_source"
                    /\ UNCHANGED dl_error
  /\ UNCHANGED <<availVars, etVars, metVars, fnVars, plVars, req, request_type, fetch_end, fetches, fetch_log,
                 outcomes, warnings_list, weather_data_sources, weather_data>>

\* lines 269-396: the loop takes the next source and applies its window rules
DlSourceValidate ==
  /\ pc = "dl_source"
  /\ idx <= Len(sources)
  /\ LET v == SourceValidation(sources[idx], req.start, req.end)
     IN IF v.error # "none"
          THEN Raise(v.error) /\ UNCHANGED <<warnings_list, fetch_end>>
          ELSE /\ warnings_list' = warnings_list \o v.warnings
               /\ fetch_end' = FetchEnd(sources[idx], req.end, v.adjusted)
               /\ pc' = IF sources[idx] \in HealthChecked
                          THEN "dl_health" ELSE "dl_issue"
               /\ UNCHANGED dl_error
  /\ UNCHANGED <<availVars, etVars, metVars, fnVars, plVars, req, request_type,
                 available_source_ids, sources, idx, fetches, fetch_log,
                 outcomes, weather_data_sources, weather_data>>

\* the source yields no table: warning, then `continue`
SkipSource(outcome) ==
  /\ warnings_list' = warnings_list \o FailureWarnings(sources[idx], outcome)
  /\ outcomes' = Append(outcomes, [source |-> sources[idx], outcome |-> outcome])
  /\ idx' = idx + 1
  /\ pc' = "dl_source"
  /\ UNCHANGED <<weather_data_sources, dl_error>>

\* lines 554, 665, 735: adapter.health_check_sync(), inside the try block
DlHealthCheck ==
  /\ pc = "dl_health"
  /\ \E h \in {"ok", "health_false", "health_raises"} :
       IF h = "ok"
         THEN /\ pc' = "dl_issue"
              /\ UNCHANGED <<warnings_list, outcomes, idx, weather_data_sources,
                             dl_error>>
         ELSE SkipSource(h)
  /\ UNCHANGED <<availVars, etVars, metVars, fnVars, plVars, req, request_type,
                 available_source_ids, sources, fetch_end, fetches,
                 fetch_log, weather_data>>

\* the adapter call is issued (get_daily_data_sync / get_data_sync)
DlFetchStart ==
  /\ pc = "dl_issue"
  /\ fetches' = Append(fetches, [source |-> sources[idx], start |-> req.start,
                                 end |-> fetch_end])
  /\ fetch_log' = Append(fetch_log, [ev |-> "start", source |-> sources[idx]])
  /\ pc' = "dl_fetching"
  /\ UNCHANGED <<availVars, etVars, metVars, fnVars, plVars, req, request_type,
                 available_source_ids, sources, idx, fetch_end, outcomes,
                 warnings_list, weather_data_sources, weather_data, dl_error>>

\* lines 402-870: the adapter call returns or raises; the table is built,
\* cleaned and checked, or the source is skipped with a warning
DlFetchReturn ==
  /\ pc = "dl_fetching"
  /\ fetch_log' = Append(fetch_log, [ev |-> "return", source |-> sources[idx]])
  /\ \E o \in FetchOutcomes, nat_days \in {"nan", "raises"} :
       LET got == IF o \in RowOutcomes /\ RowDates(o, req.start, fetch_end) = {}
                    THEN "empty" ELSE o
       IN /\ (got # "all_missing" => nat_days = "nan")
          /\ IF got \in FailOutcomes
               THEN SkipSource(got)
             ELSE IF got = "all_missing" /\ nat_days = "raises"
               \* every row is dropped; (NaT - NaT).days raises outside the try
               THEN /\ Raise("nat_days")
                    /\ outcomes' = Append(outcomes, [source |-> sources[idx],
                                                     outcome |-> got])
                    /\ UNCHANGED <<warnings_list, weather_data_sources, idx>>
             ELSE /\ warnings_list' = warnings_list
                       \o TableWarnings(sources[idx], got, req.start, fetch_end,
                                        PeriodDays(req.start, req.end))
                  /\ weather_data_sources' = Append(weather_data_sources,
                       [source |-> sources[idx],
                        dates |-> UsableDates(got, req.start, fetch_end),
                        columns |-> TableColumns(sources[idx], req.point.lat,
                                                 req.point.lon)])
                  /\ outcomes' = Append(outcomes, [source |-> sources[idx],
                                                   outcome |-> got])
                  /\ idx' = idx + 1
                  /\ pc' = "dl_source"
                  /\ UNCHANGED dl_error
  /\ UNCHANGED <<availVars, etVars, metVars, fnVars, plVars, req, request_type,
                 available_source_ids, sources, fetch_end, fetches,
                 weather_data>>

\* lines 873-899: after the loop
DlConsolidate ==
  /\ pc = "dl_source"
  /\ idx > Len(sources)
  /\ IF weather_data_sources = <<>>
       THEN Raise("no_valid_data") /\ UNCHANGED weather_data
       ELSE /\ weather_data' = ConcatFirst(weather_data_sources)
            /\ pc' = "dl_returned"
            /\ UNCHANGED dl_error
  /\ UNCHANGED <<availVars, etVars, metVars, fnVars, plVars, req, request_type,
                 available_source_ids, sources, idx, fetch_end, fetches,
                 fetch_log, outcomes, warnings_list, weather_data_sources>>

NextDownload ==
  \/ DlValidate
  \/ DlSelectSources
  \/ DlSourceValidate
  \/ DlHealthCheck
  \/ DlFetchStart
  \/ DlFetchReturn
  \/ DlConsolidate

SpecDownload == InitDownload /\ [][NextDownload]_vars

(***************************************************************************)
(* calculate_et0 evaluated on bounded inputs.                              *)
(***************************************************************************)
\* required fields a row can lack: none, one, several
MissingChoices == {{}, {"T2M_MEAN"}, {"elevation_m"}, {"T2M_MAX", "RH2M"}}

\* measurements around every limit _validate_measurements tests, with a
\* maximum temperature that is missing as a NaN
EToInputs ==
  {[f \in (DOMAIN ExampleInput) \ miss |->
      CASE f = "T2M_MAX" -> tmax
        [] f = "RH2M" -> rh
        [] f = "WS2M" -> ws
        [] f = "latitude" -> lat
        [] f = "longitude" -> lon
        [] f = "elevation_m" -> elev
        [] OTHER -> ExampleInput[f]] :
     tmax \in {17, 18, 28, NaN}, rh \in {-1, 0, 100, 101}, ws \in {-1, 0, 2},
     lat \in {-158, 900, 901}, lon \in {-480, -1801},
     elev \in {-501, -500, 9000, 9001}, miss \in MissingChoices}

\* numerators and denominators of the combined equation: negative, zero,
\* plausible, exactly 15 mm/day, just above it, not a number
PmInputs ==
  [raises : BOOLEAN, numerator : {NaN, -3, 0, 45, 150, 151},
   denominator : {0, 1, 10}]

InitEt0 ==
  /\ IdleAvail
  /\ IdleRequest
  /\ pc = "idle"
  /\ DlStart
  /\ IdlePipeline
  /\ measurements \in EToInputs
  /\ pm \in PmInputs
  /\ et0_result = <<>>
  /\ IdleAnomaly
  /\ IdleMet
  /\ IdleFn

CalculateEt0 ==
  /\ pc = "idle"
  /\ DOMAIN et0_result = {}
  /\ et0_result' = calculate_et0(measurements, pm)
  /\ UNCHANGED <<availVars, dlVars, plVars, metVars, fnVars, measurements, pm, anomaly_input, anomaly>>

NextEt0 == CalculateEt0

SpecEt0 == InitEt0 /\ [][NextEt0]_vars

(***************************************************************************)
(* detect_anomalies evaluated on bounded inputs. ET0, mean and std_dev in  *)
(* hundredths of a millimetre per day, z_score in hundredths,              *)
(* deviation_percent in tenths of a percent.                               *)
(***************************************************************************)
\* dict.get(key, default)
DictGet(d, key, default) == IF key \in DOMAIN d THEN d[key] ELSE default

\* the value None of a z_score or deviation_percent
None == -88888

Abs(x) == IF x < 0 THEN -x ELSE x

\* n / d rounded to the nearest integer (d # 0)
RoundDiv(n, d) ==
  LET an == Abs(n)
      ad == Abs(d)
      q == (2 * an + ad) \div (2 * ad)
  IN IF (n < 0) = (d < 0) THEN q ELSE -q

\* a plausible slip: a deviation of exactly 2.5 standard deviations is anomalous
detect_anomalies_inclusive(et0, historical_normal) ==
  IF DOMAIN historical_normal = {}
    THEN [is_anomaly |-> FALSE, z_score |-> None, deviation_percent |-> None]
  ELSE LET mean == DictGet(historical_normal, "mean", 0)
           std == DictGet(historical_normal, "std_dev", 100)
       IN IF std = 0 \/ mean = 0
            THEN [is_anomaly |-> FALSE, z_score |-> 0, deviation_percent |-> 0]
          ELSE [is_anomaly |-> 2 * Abs(et0 - mean) >= 5 * Abs(std),
                z_score |-> RoundDiv(100 * (et0 - mean), std),
                deviation_percent |-> RoundDiv(1000 * (et0 - mean), mean)]

\* detect_anomalies: abs(z_score) > 2.5 with z_score = (et0 - mean) / std
detect_anomalies(et0, historical_normal) ==
  IF DOMAIN historical_normal = {}
    THEN [is_anomaly |-> FALSE, z_score |-> None, deviation_percent |-> None]
  ELSE LET mean == DictGet(historical_normal, "mean", 0)
           std == DictGet(historical_normal, "std_dev", 100)
       IN IF std = 0 \/ mean = 0
            THEN [is_anomaly |-> FALSE, z_score |-> 0, deviation_percent |-> 0]
          ELSE [is_anomaly |-> 2 * Abs(et0 - mean) > 5 * Abs(std),
                z_score |-> RoundDiv(100 * (et0 - mean), std),
                deviation_percent |-> RoundDiv(1000 * (et0 - mean), mean)]

\* historical normals: None, dicts with one key or both, zero and non-zero
\* mean, zero, positive and negative std_dev
HistoricalNormals ==
  {[k \in ks |-> IF k = "mean" THEN mean ELSE std] :
     ks \in SUBSET {"mean", "std_dev"}, mean \in {0, 500}, std \in {0, 100, -100}}

\* ET0 values 5, 2.5, 2.49 and 0 standard deviations from a mean of 5 mm/day
AnomalyEt0s == {0, 250, 251, 500, 749, 750, 751, 1000}

InitAnomaly ==
  /\ IdleAvail
  /\ IdleRequest
  /\ pc = "idle"
  /\ DlStart
  /\ IdlePipeline
  /\ IdleCalculation
  /\ IdleMet
  /\ IdleFn
  /\ anomaly_input \in [et0 : AnomalyEt0s, historical_normal : HistoricalNormals]
  /\ anomaly = <<>>

DetectAnomalies ==
  /\ pc = "idle"
  /\ DOMAIN anomaly = {}
  /\ anomaly' = detect_anomalies(anomaly_input.et0, anomaly_input.historical_normal)
  /\ UNCHANGED <<availVars, dlVars, plVars, metVars, fnVars, measurements, pm, et0_result,
                 anomaly_input>>

NextAnomaly == DetectAnomalies

SpecAnomaly == InitAnomaly /\ [][NextAnomaly]_vars

(***************************************************************************)
(* METNorwayClient.get_daily_forecast: cache, conditional request, retry.  *)
(* Coordinates in 1e-5 degrees, dates in days, the clock in ticks.         *)
(***************************************************************************)
\* METNorwayConfig.retry_attempts
retry_attempts == 3

\* bound on the number of get_daily_forecast calls in a run
MaxCalls == 2

\* bound on the clock
MaxTicks == 1

\* _round_coordinates: round(x, 4) (the inputs avoid ties)
Round4(x) == 10 * RoundDiv(x, 10)

\* the variable names in sorted() order, and their words between underscores
SortedVariableNames ==
  <<"air_temperature_max", "air_temperature_mean", "air_temperature_min",
    "precipitation_sum", "relative_humidity_mean">>

VariableWords ==
  [air_temperature_max |-> <<"air", "temperature", "max">>,
   air_temperature_mean |-> <<"air", "temperature", "mean">>,
   air_temperature_min |-> <<"air", "temperature", "min">>,
   precipitation_sum |-> <<"precipitation", "sum">>,
   relative_humidity_mean |-> <<"relative", "humidity", "mean">>]

RECURSIVE JoinSorted(_, _)
\* "_".join(sorted(variables)), as the words between the underscores
JoinSorted(variables, i) ==
  IF i > Len(SortedVariableNames) THEN <<>>
  ELSE (IF SortedVariableNames[i] \in variables
          THEN VariableWords[SortedVariableNames[i]] ELSE <<>>)
       \o JoinSorted(variables, i + 1)

\* a plausible slip: the variables are left out of the key
CacheKeyWithoutVariables(lat, lon, start_date, end_date, variables) ==
  [lat |-> lat, lon |-> lon, start |-> start_date, end |-> end_date,
   vars_str |-> <<"default">>]

\* cache_key: f"met_lf_{lat}_{lon}_{start_date.date()}_{end_date.date()}_{vars_str}"
CacheKey(lat, lon, start_date, end_date, variables) ==
  [lat |-> lat, lon |-> lon, start |-> start_date, end |-> end_date,
   vars_str |-> IF variables # {} THEN JoinSorted(variables, 1) ELSE <<"default">>]

\* the daily records _parse_daily_response builds from a response
ParsedData(lat, lon, start_date, end_date, variables) ==
  {[date |-> d, lat |-> lat, lon |-> lon, variables |-> variables] :
     d \in start_date..end_date}

\* the instant the Expires headers of the responses name
ExpiresTick == 1

\* an Expires header: absent, or parsed by _parse_rfc1123_date into a naive
\* datetime (zone -0000) or an aware one (zone GMT)
NoExpires == [set |-> FALSE, at |-> 0, aware |-> FALSE]

ExpiresHeaders ==
  {NoExpires, [set |-> TRUE, at |-> ExpiresTick, aware |-> FALSE],
   [set |-> TRUE, at |-> ExpiresTick, aware |-> TRUE]}

\* what self.client.get gives: a response with a status, or a transport error
Responses ==
  {[kind |-> "response", status |-> 200, expires |-> e, body |-> "days"] :
     e \in ExpiresHeaders}
  \cup {[kind |-> "response", status |-> 304, expires |-> e, body |-> "none"] :
          e \in ExpiresHeaders}
  \cup {[kind |-> "response", status |-> st, expires |-> NoExpires, body |-> "none"] :
          st \in {301, 429, 500}}
  \cup {[kind |-> "response", status |-> 203, expires |-> NoExpires, body |-> "days"],
        [kind |-> "response", status |-> 200, expires |-> NoExpires, body |-> "empty"],
        [kind |-> "response", status |-> 200, expires |-> NoExpires, body |-> "bad_json"],
        [kind |-> "HTTPError", status |-> 0, expires |-> NoExpires, body |-> "none"]}

\* arguments of get_daily_forecast: coordinates that round to the same and to
\* different 4-decimal values, legal and illegal windows, variables given or not
MetLats == {5991270, 5991273, 5991277}

MetLon == 1075000

MetWindows ==
  {[start |-> Today, end |-> Today + 1], [start |-> Today, end |-> Today + 2],
   [start |-> Today + 2, end |-> Today + 1], [start |-> Today, end |-> Today + 6]}

MetVariables == {{}, NORDIC_VARIABLES, {"precipitation_sum"}}

\* what cache.get gives for a key without an entry
NoMetadata ==
  [found |-> FALSE, last_modified |-> "none", expires |-> NoExpires, data |-> {}]

\* ClimateCacheService.get and set: a store that gives back what was stored
CacheGet(cache, key) == IF key \in DOMAIN cache THEN cache[key] ELSE NoMetadata

CacheSet(cache, key, metadata) ==
  [k \in DOMAIN cache \cup {key} |-> IF k = key THEN metadata ELSE cache[k]]

Returned(data) == [kind |-> "returned", data |-> data, error |-> "none"]

Raised(error) == [kind |-> "raised", data |-> {}, error |-> error]

\* get_daily_forecast up to the retry loop: validation, rounding, defaults,
\* cache key, and the cache check
MetCall ==
  /\ met_pc = "idle"
  /\ met_calls < MaxCalls
  /\ \E lat0 \in MetLats, w \in MetWindows, variables0 \in MetVariables :
       LET lat == Round4(lat0)
           lon == Round4(MetLon)
           variables == IF variables0 = {}
                          THEN get_recommended_variables(lat \div 10000, lon \div 10000)
                          ELSE variables0
           cache_key == CacheKey(lat, lon, w.start, w.end, variables)
           cached_metadata == CacheGet(met_cache, cache_key)
           call == [lat |-> lat, lon |-> lon, start_date |-> w.start,
                    end_date |-> w.end, variables |-> variables,
                    cache_key |-> cache_key, cached_metadata |-> cached_metadata,
                    last_modified |-> cached_metadata.last_modified]
       IN /\ met_call' = call
          /\ IF w.end > Today + 5 \/ w.start > w.end
               THEN met_result' = Raised("ValueError") /\ met_pc' = "done"
             ELSE IF cached_metadata.found /\ cached_metadata.expires.set
                     /\ cached_metadata.expires.aware
               THEN met_result' = Raised("TypeError") /\ met_pc' = "done"
             ELSE IF cached_metadata.found /\ cached_metadata.expires.set
                     /\ met_now < cached_metadata.expires.at
               THEN /\ met_result' = Returned(cached_metadata.data)
                    /\ met_pc' = "done"
             ELSE IF retry_attempts <= 0
               THEN met_result' = Returned({}) /\ met_pc' = "done"
             ELSE met_result' = NoResult /\ met_pc' = "request"
  /\ attempt' = 0
  /\ http_requests' = 0
  /\ met_response' = NoResponse
  /\ UNCHANGED <<availVars, dlVars, plVars, etVars, fnVars, met_cache, met_now, met_calls>>

\* one pass of the retry loop: the request and the handling of its outcome
MetRequest ==
  /\ met_pc = "request"
  /\ http_requests' = http_requests + 1
  /\ \E resp \in Responses :
       LET key == met_call.cache_key
           parsed_data ==
             IF resp.body = "days"
               THEN ParsedData(met_call.lat, met_call.lon, met_call.start_date,
                               met_call.end_date, met_call.variables)
               ELSE {}
           last == attempt = retry_attempts - 1
           cached_metadata == CacheGet(met_cache, key)
       IN /\ met_response' = [kind |-> resp.kind, status |-> resp.status]
          /\ CASE resp.kind = "response" /\ resp.status = 304 ->
                       /\ met_pc' = "done"
                       /\ IF cached_metadata.found
                            THEN /\ met_result' = Returned(cached_metadata.data)
                                 /\ met_cache' =
                                      IF resp.expires.set
                                        THEN CacheSet(met_cache, key,
                                                      [cached_metadata
                                                         EXCEPT !.expires = resp.expires])
                                        ELSE met_cache
                            ELSE met_result' = Returned({}) /\ UNCHANGED met_cache
                  [] resp.kind = "response" /\ resp.status = 429 ->
                       /\ met_result' = Raised("HTTPStatusError 429")
                       /\ met_pc' = "done"
                       /\ UNCHANGED met_cache
                  [] resp.kind = "response" /\ resp.status \in {200, 203}
                     /\ resp.body = "bad_json" ->
                       /\ met_result' = Raised("JSONDecodeError")
                       /\ met_pc' = "done"
                       /\ UNCHANGED met_cache
                  [] resp.kind = "response" /\ resp.status \in {200, 203}
                     /\ resp.body # "bad_json" ->
                       /\ met_result' = Returned(parsed_data)
                       /\ met_pc' = "done"
                       /\ met_cache' =
                            IF parsed_data # {}
                              THEN CacheSet(met_cache, key,
                                            [found |-> TRUE,
                                             last_modified |-> "last-modified",
                                             expires |-> resp.expires,
                                             data |-> parsed_data])
                              ELSE met_cache
                  [] OTHER ->
                       /\ IF last
                            THEN /\ met_result' =
                                      Raised(IF resp.kind = "response"
                                               THEN "HTTPStatusError" ELSE "HTTPError")
                                 /\ met_pc' = "done"
                            ELSE met_result' = NoResult /\ met_pc' = "delay"
                       /\ UNCHANGED met_cache
  /\ UNCHANGED <<availVars, dlVars, plVars, etVars, fnVars, met_now, met_calls, met_call, attempt>>

\* a retry loop that never advances its attempt counter
MetDelaySameAttempt ==
  /\ met_pc = "delay"
  /\ attempt' = attempt
  /\ met_pc' = "request"
  /\ http_requests' = http_requests
  /\ UNCHANGED <<availVars, dlVars, plVars, etVars, fnVars, met_cache, met_now, met_calls,
                 met_call, met_result, met_response>>

\* _delay_retry, then the next pass of the loop
MetDelay ==
  /\ met_pc = "delay"
  /\ attempt' = attempt + 1
  /\ met_pc' = "request"
  /\ UNCHANGED <<availVars, dlVars, plVars, etVars, fnVars, met_cache, met_now, met_calls,
                 met_call, http_requests, met_result, met_response>>

\* the call is over and its locals are gone; the client is ready for the
\* next one
MetDone ==
  /\ met_pc = "done"
  /\ met_pc' = "idle"
  /\ met_calls' = met_calls + 1
  /\ met_call' = NoCall
  /\ attempt' = 0
  /\ http_requests' = 0
  /\ met_result' = NoResult
  /\ met_response' = NoResponse
  /\ UNCHANGED <<availVars, dlVars, plVars, etVars, fnVars, met_cache, met_now>>

\* time passes between calls
MetTick ==
  /\ met_pc = "idle"
  /\ met_now < MaxTicks
  /\ met_now' = met_now + 1
  /\ UNCHANGED <<availVars, dlVars, plVars, etVars, fnVars, met_cache, met_calls, met_pc,
                 met_call, attempt, http_requests, met_result, met_response>>

InitMet ==
  /\ IdleAvail
  /\ IdleRequest
  /\ pc = "idle"
  /\ DlStart
  /\ IdlePipeline
  /\ IdleCalculation
  /\ IdleAnomaly
  /\ IdleMet
  /\ IdleFn

NextMet == MetCall \/ MetRequest \/ MetDelay \/ MetDone \/ MetTick

SpecMet == InitMet /\ [][NextMet]_vars

\* self.client.get ends within config.timeout and asyncio.sleep(retry_delay)
\* ends, so a pending request and a pending delay are eventually taken
SpecMetFair == SpecMet /\ WF_vars(MetRequest) /\ WF_vars(MetDelay)

(***************************************************************************)
(* Harmonization: harmonize_data (data_storage.py) and the column          *)
(* harmonization of download_weather_data.                                 *)
(***************************************************************************)
\* applications of a harmonization step to one record
MaxApplications == 2

\* the api_variables rows written by sync_api_variables: variable_name and
\* standard_name are the same name
SyncedNames ==
  [nasa_power |->
     {"date", "source", "temp_max", "temp_min", "temp_mean",
      "relative_humidity_mean", "wind_speed_2m_mean", "solar_radiation",
      "precipitation_sum_mm"},
   openmeteo_archive |->
     {"date", "source", "temp_max", "temp_min", "temp_mean",
      "relative_humidity_max", "relative_humidity_min", "relative_humidity_mean",
      "wind_speed_2m_mean", "solar_radiation", "precipitation_sum_mm",
      "et0_fao_evapotranspiration"}]

\* the api_variables rows of the docstrings of get_variable_mapping and
\* harmonize_data
DocumentedRows ==
  [nasa_power |->
     [T2M_MAX |-> "temp_max_c", T2M_MIN |-> "temp_min_c",
      RH2M |-> "humidity_percent"],
   openmeteo_archive |->
     [temperature_2m_max |-> "temp_max_c",
      relative_humidity_2m_mean |-> "humidity_percent"]]

\* get_variable_mapping: {variable_name: standard_name} of the rows of a source
get_variable_mapping(table, api) ==
  CASE table = "synced" -> [name \in SyncedNames[api] |-> name]
    [] table = "documented" -> DocumentedRows[api]
    [] OTHER -> NoRecord

\* the key harmonize_data stores a field under
StandardKey(mapping, api_var) ==
  IF api_var \in DOMAIN mapping THEN mapping[api_var] ELSE "unmapped_" \o api_var

\* harmonize_data: mapped fields under their standard name, every other field
\* under its name with the prefix; the record itself when the table cannot
\* be read
harmonize_data(record, api, table) ==
  IF table = "unavailable"
    THEN record
    ELSE LET mapping == get_variable_mapping(table, api)
             keys == {StandardKey(mapping, api_var) : api_var \in DOMAIN record}
         IN [std_var \in keys |->
               LET api_var == CHOOSE v \in DOMAIN record :
                                StandardKey(mapping, v) = std_var
               IN record[api_var]]

\* the harmonization dict of the openmeteo_archive branch
harmonization ==
  [temperature_2m_max |-> "T2M_MAX",
   temperature_2m_min |-> "T2M_MIN",
   temperature_2m_mean |-> "T2M",
   relative_humidity_2m_mean |-> "RH2M",
   wind_speed_2m_mean |-> "WS2M",
   shortwave_radiation_sum |-> "ALLSKY_SFC_SW_DWN",
   precipitation_sum |-> "PRECTOTCORR"]

\* weather_df[nasa_var] = weather_df[openmeteo_var] for every Open-Meteo
\* column present
HarmonizeColumns(record) ==
  LET present == DOMAIN record \cap DOMAIN harmonization
  IN [col \in DOMAIN record \cup {harmonization[v] : v \in present} |->
        IF \E v \in present : harmonization[v] = col
          THEN record[CHOOSE v \in present : harmonization[v] = col]
          ELSE record[col]]

\* field names of the records handed in: canonical names, Open-Meteo names,
\* standard names of the table and of the docstring
FieldNames ==
  {"T2M_MAX", "RH2M", "temperature_2m_max", "relative_humidity_2m_mean",
   "temp_max", "temp_max_c"}

FieldValues == {285, 650}

RawRecords ==
  UNION {[names -> FieldValues] :
           names \in {n \in SUBSET FieldNames : Cardinality(n) \in 1..2}}

InitHarmonize ==
  /\ IdleAvail
  /\ IdleRequest
  /\ pc = "idle"
  /\ DlStart
  /\ IdlePipeline
  /\ IdleCalculation
  /\ IdleAnomaly
  /\ IdleMet
  /\ raw_data \in RawRecords
  /\ source_api \in {"nasa_power", "openmeteo_archive"}
  /\ api_variables \in {"synced", "documented", "unavailable"}
  /\ harmonizer = "none"
  /\ harmonized = <<>>
  /\ IdleNws
  /\ IdleElevation

\* the last result, or the record handed in
Latest == IF harmonized = <<>> THEN raw_data ELSE harmonized[Len(harmonized)]

HarmonizeData ==
  /\ harmonizer \in {"none", "harmonize_data"}
  /\ Len(harmonized) < MaxApplications
  /\ harmonizer' = "harmonize_data"
  /\ harmonized' = Append(harmonized,
                          harmonize_data(Latest, source_api, api_variables))
  /\ UNCHANGED <<availVars, dlVars, plVars, etVars, metVars, nwsVars, elVars, raw_data,
                 source_api, api_variables>>

HarmonizeDownload ==
  /\ harmonizer \in {"none", "download_weather_data"}
  /\ Len(harmonized) < MaxApplications
  /\ harmonizer' = "download_weather_data"
  /\ harmonized' = Append(harmonized, HarmonizeColumns(Latest))
  /\ UNCHANGED <<availVars, dlVars, plVars, etVars, metVars, nwsVars, elVars, raw_data,
                 source_api, api_variables>>

NextHarmonize == HarmonizeData \/ HarmonizeDownload

SpecHarmonize == InitHarmonize /\ [][NextHarmonize]_vars

(***************************************************************************)
(* NWSForecastClient.get_daily_forecast_data: daily aggregation of the     *)
(* hourly forecast.                                                        *)
(***************************************************************************)
\* calendar days the hourly forecast may touch
MaxNwsDays == 3

\* hours of coverage a day needs to be returned
MinHoursPerDay == 20

HoursOfDay(records, day) == {r \in records : r.date = day}

\* a threshold that asks for more than MinHoursPerDay records
KeptDaysStrict(records) ==
  {day \in {r.date : r \in records} :
     Cardinality(HoursOfDay(records, day)) > MinHoursPerDay}

\* the days covered by enough hourly records
KeptDays(records) ==
  {day \in {r.date : r \in records} :
     Cardinality(HoursOfDay(records, day)) >= MinHoursPerDay}

\* the kept days in date order, each with its hourly records
get_daily_forecast_data(records) ==
  LET kept == KeptDays(records)
      order == CHOOSE seq \in [1..Cardinality(kept) -> kept] :
                 \A i, j \in DOMAIN seq : i < j => seq[i] < seq[j]
  IN [i \in 1..Cardinality(kept) |->
        [date |-> order[i], hourly_data |-> HoursOfDay(records, order[i])]]

\* hourly records of one day: the last n hours of it, as a forecast issued
\* during the day gives them
LastHours(day, n) == {[date |-> day, hour |-> h] : h \in (24 - n)..23}

HourCounts == {0, 7, 19, 20, 21, 24}

HourlyInputs ==
  {UNION {LastHours(Today + k - 1, counts[k]) : k \in 1..MaxNwsDays} :
     counts \in [1..MaxNwsDays -> HourCounts]}

InitNws ==
  /\ IdleAvail
  /\ IdleRequest
  /\ pc = "idle"
  /\ DlStart
  /\ IdlePipeline
  /\ IdleCalculation
  /\ IdleAnomaly
  /\ IdleMet
  /\ IdleHarmonization
  /\ hourly_data \in HourlyInputs
  /\ daily_data = <<>>
  /\ nws_pc = "idle"
  /\ IdleElevation

AggregateDaily ==
  /\ nws_pc = "idle"
  /\ daily_data' = get_daily_forecast_data(hourly_data)
  /\ nws_pc' = "done"
  /\ UNCHANGED <<availVars, dlVars, plVars, etVars, metVars, hzVars, elVars,
                 hourly_data>>

NextNws == AggregateDaily

SpecNws == InitNws /\ [][NextNws]_vars

(***************************************************************************)
(* The elevation argument on its way to calculate_et0, in process_location *)
(* and in process_location_with_sources.                                   *)
(***************************************************************************)
\* rows of one run
MaxRows == 3

\* `if elevation:` on an Optional[float]
Truthy(value) == value # None /\ value # 0

\* a row of the table after preprocessing: the weather variables only
WeatherRow ==
  [k \in DOMAIN ExampleInput \ {"elevation_m", "latitude", "longitude", "date"} |->
     ExampleInput[k]]

\* the row with the column process_location adds before fusing, when it adds it
WithElevation(row, value) ==
  IF Truthy(value)
    THEN [k \in DOMAIN row \cup {"elevation_m"} |->
            IF k = "elevation_m" THEN value ELSE row[k]]
    ELSE row

\* measurements = row.to_dict() with latitude, longitude and date set
Measurements(row, date) ==
  [k \in DOMAIN row \cup {"latitude", "longitude", "date"} |->
     CASE k = "latitude" -> ExampleInput["latitude"]
       [] k = "longitude" -> ExampleInput["longitude"]
       [] k = "date" -> date
       [] OTHER -> row[k]]

\* elevations a caller supplies: none, the ends of the legal range and values
\* next to them, zero and values next to it
Elevations == {None, -501, -500, -1, 0, 1, 1000, 9000, 9001}

InitElevation ==
  /\ IdleAvail
  /\ IdleRequest
  /\ pc = "idle"
  /\ DlStart
  /\ IdlePipeline
  /\ IdleCalculation
  /\ IdleAnomaly
  /\ IdleMet
  /\ IdleHarmonization
  /\ IdleNws
  /\ elevation \in Elevations
  /\ entry_point \in {"process_location", "process_location_with_sources"}
  /\ fused_dates \in {Today..(Today + n - 1) : n \in 1..MaxRows}
  /\ engine_calls = {}

\* the per-row loop: one calculate_et0 call per row not yet handled
CalculateRow ==
  /\ entry_point # "none"
  /\ \E date \in fused_dates \ {c.measurements["date"] : c \in engine_calls} :
       LET m == IF entry_point = "process_location"
                  THEN Measurements(WithElevation(WeatherRow, elevation), date)
                  ELSE WithElevation(Measurements(WeatherRow, date), elevation)
       IN engine_calls' =
            engine_calls \cup {[measurements |-> m,
                                error |-> validate_measurements(m)]}
  /\ UNCHANGED <<availVars, dlVars, plVars, etVars, metVars, hzVars, nwsVars,
                 elevation, entry_point, fused_dates>>

NextElevation == CalculateRow

SpecElevation == InitElevation /\ [][NextElevation]_vars

(***************************************************************************)
(* POST /calculate (calculate_eto) and process_location.                   *)
(***************************************************************************)
PeriodTypes == {"historical", "dashboard", "forecast"}

\* step 0 of the route: the HTTPException(400) raised, or "none"
RoutePeriodCheck(period_type, start_date, end_date) ==
  LET period_days == end_date - start_date + 1
  IN CASE period_type = "historical" ->
            IF period_days < 1 \/ period_days > 90 THEN "historical_days"
            ELSE IF end_date >= Today THEN "historical_not_past"
            ELSE "none"
       [] period_type = "dashboard" ->
            IF period_days < 7 \/ period_days > 30 THEN "dashboard_days"
            ELSE "none"
       [] period_type = "forecast" ->
            IF start_date < Today THEN "forecast_start"
            ELSE IF end_date > Today + 5 THEN "forecast_end"
            ELSE "none"
       [] OTHER -> "none"

\* the except clauses of calculate_eto: ValueError -> 400, any other
\* exception (an HTTPException raised inside the try included) -> 500
RouteExceptStatus(exc_type, status_code) ==
  IF exc_type = "ValueError" THEN 400 ELSE 500

\* steps 0-2 of the route: the source string handed to process_location,
\* already split the way download_weather_data splits it
RouteDatabase(period_type, sources_param) ==
  IF sources_param = "auto"
    THEN IF period_type = "historical"
           THEN <<"openmeteo_archive", "nasa_power">>
           ELSE <<"data fusion">>
    ELSE sources_param

\* _summarize_series (the sums of et0 values are not modelled)
SummarizeSeries(series) ==
  IF series = {} THEN <<>>
  ELSE [total_days |-> Cardinality(series),
        low_quality_days |-> Cardinality({r \in series : r.quality = "low"})]

\* the `sources` values requests are made with
RouteSources ==
  {"auto", <<"nasa_power">>, <<"openmeteo_archive", "met_norway">>,
   <<"openmeteo_forecast", "nws_forecast">>}

RoutePoints == {PointUSA, PointBrasilia}

Init ==
  /\ IdleAvail
  /\ IdleRequest
  /\ DlStart
  /\ PlStart
  /\ IdleEt0
  /\ http \in [start : DlDates, end : DlDates, point : RoutePoints,
               period_type : PeriodTypes, sources : RouteSources]
  /\ pc = "route"

\* calculate_eto up to the call of process_location (lines 78-170)
RouteValidate ==
  /\ pc = "route"
  /\ LET check == RoutePeriodCheck(http.period_type, http.start, http.end)
     IN IF check # "none"
          THEN /\ response' = [status |-> "error",
                               status_code |-> RouteExceptStatus("HTTPException", 400),
                               detail |-> check]
               /\ pc' = "responded"
               /\ UNCHANGED <<req, pl_invoked>>
          ELSE /\ req' = [start |-> http.start, end |-> http.end,
                          point |-> http.point,
                          requested |-> RouteDatabase(http.period_type, http.sources)]
               /\ pl_invoked' = TRUE
               /\ pc' = "dl_validate"
               /\ UNCHANGED response
  /\ UNCHANGED <<availVars, etVars, metVars, fnVars, http, request_type,
                 available_source_ids, sources, idx, fetch_end, fetches,
                 fetch_log, outcomes, warnings_list, weather_data_sources,
                 weather_data, dl_error, preprocessing_warnings, fusion_warnings,
                 engine_raises, engine_raises,
                 weather_data_fused, raw_data_list, et0_series, pl_result>>

\* the `except Exception` of process_location: the run ends in {"error": ...}
PlError(msg) ==
  /\ pl_result' = [error |-> msg]
  /\ pc' = "pl_done"

\* process_location, step 1: download_weather_data raised, or returned
PlDownloaded ==
  /\ pl_invoked
  /\ pc \in {"dl_raised", "dl_returned"}
  /\ IF pc = "dl_raised" THEN PlError(dl_error)
     ELSE IF weather_data = {} THEN PlError("no_weather_data")
     ELSE pc' = "pl_preprocess" /\ UNCHANGED pl_result
  /\ UNCHANGED <<availVars, etVars, metVars, fnVars, dlVars_but_pc, http, pl_invoked, preprocessing_warnings,
                 fusion_warnings, engine_raises,
                 weather_data_fused, raw_data_list, et0_series, response>>

\* process_location, step 2: preprocessing(weather_data, latitude)
PlPreprocess ==
  /\ pc = "pl_preprocess"
  /\ \E o \in {"ok", "ok_warning", "raises"} :
       IF o = "raises"
         THEN PlError("preprocessing") /\ UNCHANGED preprocessing_warnings
         ELSE /\ preprocessing_warnings' =
                   IF o = "ok_warning" THEN <<Warn("preprocessing", "outliers")>>
                   ELSE <<>>
              /\ pc' = "pl_fuse"
              /\ UNCHANGED pl_result
  /\ UNCHANGED <<availVars, etVars, metVars, fnVars, dlVars_but_pc, http, pl_invoked, fusion_warnings,
                 engine_raises, engine_raises,
                 weather_data_fused, raw_data_list, et0_series, response>>

\* KalmanEnsembleStrategy.auto_fuse_sync on the record of one day: with one
\* contributing source the fused record is that source's record
auto_fuse_sync(current_measurements) == current_measurements

\* dates on which the fusion engine may raise: none, the first day, every day
RaiseDays(table) ==
  LET dates == {r.date : r \in table}
  IN {{}, {SetMin(dates)}, dates}

Reverse(q) == [i \in 1..Len(q) |-> q[Len(q) + 1 - i]]

RECURSIVE SortedDates(_)
\* the index of the table, in row order
SortedDates(dates) ==
  IF dates = {} THEN <<>>
  ELSE <<SetMin(dates)>> \o SortedDates(dates \ {SetMin(dates)})

\* a plausible slip: the fused records are attached to the index in reverse
FuseDataMisaligned(table, raises_at) ==
  LET index == SortedDates({r.date : r \in table})
      Row(d) == CHOOSE r \in table : r.date = d
      fused_records == [i \in 1..Len(index) |-> auto_fuse_sync(Row(index[i]))]
      shuffled == Reverse(fused_records)
  IN IF \E r \in table : r.date \in raises_at
       THEN [table |-> {[date |-> r.date, record |-> r, fused |-> FALSE] : r \in table},
             warnings |-> <<Warn("fusion", "fusion_failed")>>]
       ELSE [table |-> {[date |-> index[i], record |-> shuffled[i], fused |-> TRUE] :
                          i \in 1..Len(index)},
             warnings |-> <<>>]

\* a plausible slip: on failure only the rows fused so far are kept
FuseDataDropsAffected(table, raises_at) ==
  LET index == SortedDates({r.date : r \in table})
      Row(d) == CHOOSE r \in table : r.date = d
      fused_records == [i \in 1..Len(index) |-> auto_fuse_sync(Row(index[i]))]
  IN IF \E r \in table : r.date \in raises_at
       THEN [table |-> {[date |-> r.date, record |-> r, fused |-> FALSE] :
                          r \in {x \in table : x.date \notin raises_at}},
             warnings |-> <<Warn("fusion", "fusion_failed")>>]
       ELSE [table |-> {[date |-> index[i], record |-> fused_records[i], fused |-> TRUE] :
                          i \in 1..Len(index)},
             warnings |-> <<>>]

\* _fuse_data: one engine call per row, the results put on the index of the
\* input; if any call raises, the input table is returned with a warning
FuseData(table, raises_at) ==
  LET index == SortedDates({r.date : r \in table})
      Row(d) == CHOOSE r \in table : r.date = d
      fused_records == [i \in 1..Len(index) |-> auto_fuse_sync(Row(index[i]))]
  IN IF \E r \in table : r.date \in raises_at
       THEN [table |-> {[date |-> r.date, record |-> r, fused |-> FALSE] : r \in table},
             warnings |-> <<Warn("fusion", "fusion_failed")>>]
       ELSE [table |-> {[date |-> index[i], record |-> fused_records[i], fused |-> TRUE] :
                          i \in 1..Len(index)},
             warnings |-> <<>>]

\* process_location, step 3: _fuse_data; a failure falls back to the raw table
PlFuse ==
  /\ pc = "pl_fuse"
  /\ \E raises_at \in RaiseDays(weather_data) :
       LET res == FuseData(weather_data, raises_at)
       IN /\ engine_raises' = raises_at
          /\ weather_data_fused' = res.table
          /\ fusion_warnings' = res.warnings
  /\ pc' = "pl_calculate"
  /\ UNCHANGED <<availVars, etVars, metVars, fnVars, dlVars_but_pc, http, pl_invoked, preprocessing_warnings,
                 raw_data_list, et0_series, pl_result, response>>

\* process_location, steps 4-5: one entry per row; calculate_et0 turns a
\* failing day into a low-quality entry
\* rows of the fused table as step 4 reads them, by name: the worked example,
\* a day whose maximum temperature is below its minimum, and a day whose mean
\* temperature makes exp() overflow in the saturation vapour pressure
FusedRows ==
  [good |-> [measurements |-> ExampleInput, pm |-> ExamplePm],
   tmax_below_tmin |->
     [measurements |-> [ExampleInput EXCEPT !["T2M_MAX"] = 17], pm |-> ExamplePm],
   exp_overflow |->
     [measurements |-> [ExampleInput EXCEPT !["T2M_MEAN"] = -238],
      pm |-> [ExamplePm EXCEPT !.raises = TRUE]]]

FailingDays == {"tmax_below_tmin", "exp_overflow"}

\* process_location, step 4: calculate_et0 on every row of the fused table,
\* with the request's coordinates and the row's date; an exception leaving
\* calculate_et0 would end process_location in its except clause
PlCalculate ==
  /\ pc = "pl_calculate"
  /\ LET dates == {r.date : r \in weather_data_fused}
     IN \E bad \in {{}, {SetMin(dates)}, dates}, failing \in FailingDays :
        \E calculated \in
             {{LET row == IF d \in bad THEN failing ELSE "good"
                   m == [FusedRows[row].measurements
                           EXCEPT !["latitude"] = http.point.lat,
                                  !["longitude"] = http.point.lon,
                                  !["date"] = d]
               IN [date |-> d, row |-> row,
                   et0_result |-> calculate_et0(m, FusedRows[row].pm)] :
               d \in dates}} :
          IF \E c \in calculated : c.et0_result.outcome = "raised"
            THEN /\ PlError("calculation")
                 /\ UNCHANGED <<raw_data_list, et0_series>>
            ELSE /\ et0_series' = {[date |-> c.date,
                                    et0_mm_day |-> c.et0_result.result.et0_mm_day,
                                    quality |-> c.et0_result.result.quality] :
                                   c \in calculated}
                 /\ raw_data_list' = {[date |-> c.date, raw_data |-> c.row,
                                       eto_result |-> c.et0_result.result] :
                                      c \in calculated}
                 /\ pc' = "pl_store"
                 /\ UNCHANGED pl_result
  /\ UNCHANGED <<availVars, etVars, metVars, fnVars, dlVars_but_pc, http, pl_invoked, preprocessing_warnings,
                 fusion_warnings, engine_raises,
                 weather_data_fused, response>>

\* process_location, steps 6-7 and the return: _save_to_database swallows a
\* storage failure unless the rollback itself raises; then the result dict.
\* raw_data_list is local to process_location and ends with it.
PlStoreAndReturn ==
  /\ pc = "pl_store"
  /\ \E o \in {"saved", "save_failed", "rollback_raises"} :
       IF o = "rollback_raises"
         THEN PlError("rollback")
         ELSE /\ pl_result' = [et0_series |-> et0_series,
                               eto_data |-> et0_series,
                               summary |-> SummarizeSeries(et0_series),
                               statistics |-> SummarizeSeries(et0_series)]
              /\ pc' = "pl_done"
  /\ raw_data_list' = {}
  /\ UNCHANGED <<availVars, etVars, metVars, fnVars, dlVars_but_pc, http, pl_invoked, preprocessing_warnings,
                 fusion_warnings, engine_raises,
                 weather_data_fused, et0_series, response>>

\* calculate_eto, step 5: the response built from the returned dict
RouteRespond ==
  /\ pc = "pl_done"
  /\ response' = [status |-> "success",
                  status_code |-> 200,
                  data |-> DictGet(pl_result, "eto_data", {}),
                  statistics |-> DictGet(pl_result, "statistics", <<>>),
                  warnings |-> DictGet(pl_result, "warnings", <<>>)]
  /\ pc' = "responded"
  /\ UNCHANGED <<availVars, etVars, metVars, fnVars, dlVars_but_pc, http, pl_invoked, preprocessing_warnings,
                 fusion_warnings, engine_raises,
                 weather_data_fused, raw_data_list, et0_series, pl_result>>

Next ==
  \/ RouteValidate
  \/ NextDownload
  \/ PlDownloaded
  \/ PlPreprocess
  \/ PlFuse
  \/ PlCalculate
  \/ PlStoreAndReturn
  \/ RouteRespond

Spec == Init /\ [][Next]_vars

(***************************************************************************)
(* Properties of the resolver and the classifier (under SpecAvail).        *)
(***************************************************************************)
Resolved == DOMAIN verdicts # {}

\* C2: for every source, every window with start <= end, every point and both
\* data_type values, available=True implies that the window starts no earlier
\* than the source's resolved start bound for today, ends no later than its
\* resolved end bound, and, for a coverage=usa source, that the point lies in
\* the USA box (lon -125..-66, lat 24..49).
C2_AvailableWithinResolvedBound ==
  (Resolved /\ probe.start <= probe.end) =>
    \A s \in Sources :
      verdicts[s].available =>
        /\ probe.start >= ApiStart(s)
        /\ probe.end <= ApiEnd(s)
        /\ (verdicts[s].coverage = "usa" =>
              /\ -1250 <= probe.point.lon /\ probe.point.lon <= -660
              /\ 240 <= probe.point.lat /\ probe.point.lat <= 490)

\* a USA-only forecast source is reported available for a window ending on
\* its last covered day, at the corner of the USA box
C2_Witness ==
  /\ Resolved
  /\ probe.start <= probe.end
  /\ probe.end = Today + 5
  /\ probe.point = PointUSACorner
  /\ verdicts["nws_forecast"].available

\* the per-source validity windows of the interface table
InterfaceStart(s) ==
  CASE s \in {"nasa_power", "openmeteo_archive"} -> Date1990
    [] s = "openmeteo_forecast" -> Today - 25
    [] s \in {"met_norway", "nws_forecast"} -> Today
    [] s = "nws_stations" -> Today - 1

InterfaceEnd(s) ==
  CASE s \in {"nasa_power", "openmeteo_archive"} -> Today - 2
    [] s \in {"openmeteo_forecast", "met_norway", "nws_forecast"} -> Today + 5
    [] s = "nws_stations" -> Today

\* C3: the window the resolver resolves for each source equals the validity
\* window of the interface table: a source that is not rejected on geographic
\* or type grounds is reported available exactly when the requested window
\* lies inside its table window; in particular openmeteo_forecast is never
\* reported available for a window that starts before today-25.
C3_ResolverMatchesInterfaceTable ==
  (Resolved /\ probe.start <= probe.end) =>
    \A s \in Sources :
      (/\ GeoReasons(s, probe.point.lat, probe.point.lon) = <<>>
       /\ TypeReasons(s, probe.end, probe.data_type) = <<>>) =>
        (verdicts[s].available <=>
           (probe.start >= InterfaceStart(s) /\ probe.end <= InterfaceEnd(s)))

\* C7: classify_request_type is total and returns exactly one class:
\* forecast iff end > today; historical iff end <= today and start <= today-30;
\* current iff end <= today and start > today-30.
C7_ClassifyPartition ==
  klass # "none" =>
    /\ klass \in {"historical", "current", "forecast"}
    /\ (klass = "forecast" <=> probe.end > Today)
    /\ (klass = "historical" <=> (probe.end <= Today /\ probe.start <= Today - 30))
    /\ (klass = "current" <=> (probe.end <= Today /\ probe.start > Today - 30))

\* the classifier has been applied to a window starting exactly on today-30
C7_Witness ==
  /\ klass = "historical"
  /\ probe.start = Today - 30
  /\ probe.end = Today

(***************************************************************************)
(* Properties of download_weather_data (under SpecDownload).               *)
(***************************************************************************)
SourceWindowErrors ==
  {"nasa_start", "archive_start", "forecast_start", "forecast_end",
   "no_history", "stations_start", "stations_end"}

HasUsableRows == \E i \in 1..Len(weather_data_sources) :
                    weather_data_sources[i].dates # {}

\* C1: once request-level validation has passed and the source list is not
\* empty, the request fails if and only if no selected source yields usable
\* rows; a source whose own validity window does not cover the request never
\* aborts the request while another selected source's window covers it.
C1_FailsOnlyWithoutRows ==
  /\ (pc = "dl_raised" /\ sources # <<>>) =>
       /\ ~HasUsableRows
       /\ ~(/\ dl_error \in SourceWindowErrors
            /\ \E k \in 1..Len(sources) :
                 SourceValidation(sources[k], req.start, req.end).error = "none")
  /\ (pc = "dl_returned" => HasUsableRows)

TruncationKinds == {"truncate", "truncated_to"}

WarningsOf(src, kinds) ==
  {j \in 1..Len(warnings_list) :
     warnings_list[j].src = src /\ warnings_list[j].kind \in kinds}

\* C4: for nasa_power and openmeteo_archive, a requested end date later than
\* today-2 makes the fetch end on today-2 with exactly one truncation warning
\* for that source; otherwise the fetch uses the requested end date and no
\* truncation warning is appended.
C4_HistoricalEndTruncated ==
  \A i \in 1..Len(fetches) :
    fetches[i].source \in {"nasa_power", "openmeteo_archive"} =>
      IF req.end > Today - 2
        THEN /\ fetches[i].end = Today - 2
             /\ Cardinality(WarningsOf(fetches[i].source, TruncationKinds)) = 1
        ELSE /\ fetches[i].end = req.end
             /\ WarningsOf(fetches[i].source, TruncationKinds) = {}

AdapterFailures ==
  {"health_false", "health_raises", "empty", "raise_value", "raise_other"}

FailureKinds == {"health", "error", "no_data", "coverage"}

\* C9: whatever way a selected source's adapter fails during its health check
\* or its fetch, the failure is not propagated: the source contributes no
\* table, exactly one warning naming the source is appended, and the loop goes
\* on to the remaining sources.
C9_AdapterFailureDegrades ==
  \A i \in 1..Len(outcomes) :
    outcomes[i].outcome \in AdapterFailures =>
      /\ \A t \in 1..Len(weather_data_sources) :
           weather_data_sources[t].source # outcomes[i].source
      /\ Cardinality(WarningsOf(outcomes[i].source, FailureKinds)) = 1
      /\ sources[i] = outcomes[i].source
      /\ idx > i
      /\ dl_error \in {"none", "no_valid_data", "nat_days"} \cup SourceWindowErrors

\* the first source's fetch raised, the second one still delivered its table
C9_Witness ==
  /\ pc = "dl_returned"
  /\ Len(outcomes) = 2
  /\ outcomes[1].outcome = "raise_other"
  /\ outcomes[2].outcome = "full"
  /\ weather_data # {}

\* C10: with more than one source selected, every fetch is started before the
\* result of any fetch is awaited, and consolidation begins only after every
\* issued fetch has returned or failed.
C10_FetchesConcurrentThenBarrier ==
  /\ \A i, j \in 1..Len(fetch_log) :
       (i < j /\ fetch_log[i].ev = "return") => fetch_log[j].ev # "start"
  /\ (pc = "dl_returned" =>
        \A i \in 1..Len(fetch_log) :
          fetch_log[i].ev = "start" =>
            \E j \in (i + 1)..Len(fetch_log) :
              /\ fetch_log[j].ev = "return"
              /\ fetch_log[j].source = fetch_log[i].source)

(***************************************************************************)
(* Properties of /calculate and process_location (under Spec).             *)
(***************************************************************************)
RECURSIVE IsSubSeq(_, _)
\* the elements of a occur in b, in the same order
IsSubSeq(a, b) ==
  IF a = <<>> THEN TRUE
  ELSE IF b = <<>> THEN FALSE
  ELSE IF Head(a) = Head(b) THEN IsSubSeq(Tail(a), Tail(b))
  ELSE IsSubSeq(a, Tail(b))

RunCompleted == pc = "responded" /\ pl_invoked /\ "et0_series" \in DOMAIN pl_result

\* C5: the warning log only grows: every warning appended while downloading,
\* preprocessing or fusing is present, in the order it was appended, in the
\* warnings of the response of every run that completes.
C5_WarningsReachResponse ==
  RunCompleted =>
    IsSubSeq(warnings_list \o preprocessing_warnings \o fusion_warnings,
             response.warnings)

\* C6: in every run in which the download returned at least one row, a failure
\* during preprocessing, fusing or calculating degrades days at most: the run
\* does not end in an error outcome, it returns an et0_series with a summary.
C6_FailuresDegradeDaysOnly ==
  (pc \in {"pl_done", "responded"} /\ pl_invoked /\ weather_data # {}) =>
    /\ "error" \notin DOMAIN pl_result
    /\ DictGet(pl_result, "et0_series", {}) # {}
    /\ DictGet(pl_result, "summary", <<>>) # <<>>

\* period legality of the interface
LegalPeriod(period_type, start_date, end_date) ==
  LET days == end_date - start_date + 1
  IN CASE period_type = "historical" -> 1 <= days /\ days <= 90 /\ end_date < Today
       [] period_type = "dashboard" -> 7 <= days /\ days <= 30
       [] period_type = "forecast" -> start_date >= Today /\ end_date <= Today + 5

\* C8: /calculate rejects with a 4xx-class error, before the pipeline is
\* invoked, exactly the requests that violate the period legality of their
\* period_type; every legal request is handed to the pipeline.
C8_IllegalPeriodRejected4xx ==
  pc # "route" =>
    IF LegalPeriod(http.period_type, http.start, http.end)
      THEN pl_invoked
      ELSE /\ ~pl_invoked
           /\ pc = "responded"
           /\ response.status_code >= 400
           /\ response.status_code <= 499

(***************************************************************************)
(* Regional variables of met_norway (under SpecDownload).                  *)
(***************************************************************************)
PrecipitationNames == {"precipitation_amount", "precipitation_sum"}

InNordicBox(point) ==
  /\ 40 <= point.lon /\ point.lon <= 310
  /\ 540 <= point.lat /\ point.lat <= 715

MetNorwayTables ==
  {i \in 1..Len(weather_data_sources) : weather_data_sources[i].source = "met_norway"}

\* C11: for every point outside the Nordic box (lon 4..31, lat 54..71.5) the
\* resolver's variable set for met_norway has no precipitation and the
\* met_norway table built by download_weather_data has no precipitation column;
\* for points inside the box precipitation is included in both.
C11_NordicPrecipitationGate ==
  /\ \A data_type \in DataTypes :
       LET v == get_available_sources(req.start, req.end, req.point.lat,
                                      req.point.lon, data_type)["met_norway"]
       IN /\ v.available =>
               ((v.variables \cap PrecipitationNames # {}) <=> InNordicBox(req.point))
          /\ ~InNordicBox(req.point) => v.variables \cap PrecipitationNames = {}
  /\ \A i \in MetNorwayTables :
       (weather_data_sources[i].columns \cap PrecipitationNames # {})
         <=> InNordicBox(req.point)

\* a met_norway table was built for a point just east of the Nordic box
C11_Witness ==
  /\ MetNorwayTables # {}
  /\ req.point = PointEastOfNordic
  /\ pc = "dl_returned"

(***************************************************************************)
(* Type filter of the resolver (under SpecAvail).                          *)
(***************************************************************************)
HistoricalSources == {"nasa_power", "openmeteo_archive"}

TypeRejections == {"not_historical", "historical_no_future"}

ReasonSet(s) == {verdicts[s].reason[i] : i \in 1..Len(verdicts[s].reason)}

\* C12: with data_type=historical only historical-type sources (nasa_power,
\* openmeteo_archive) are reported available; with data_type=forecast the
\* forecast and realtime sources are never rejected on type grounds, and a
\* historical-type source is reported available only if end < today.
C12_TypeFilter ==
  Resolved =>
    \A s \in Sources :
      /\ (probe.data_type = "historical" /\ verdicts[s].available)
           => s \in HistoricalSources
      /\ (probe.data_type = "forecast" /\ s \notin HistoricalSources)
           => ReasonSet(s) \cap TypeRejections = {}
      /\ (probe.data_type = "forecast" /\ s \in HistoricalSources
            /\ verdicts[s].available)
           => probe.end < Today

\* forecast mode, window entirely in the past: a historical source and a
\* forecast source are both reported available
C12_Witness ==
  /\ Resolved
  /\ probe.data_type = "forecast"
  /\ probe.end = Today - 2
  /\ verdicts["nasa_power"].available
  /\ verdicts["openmeteo_forecast"].available

(***************************************************************************)
(* Expansion of "data fusion" (under SpecDownload).                        *)
(***************************************************************************)
CandidateSet(request_class) ==
  CASE request_class = "historical" -> {"nasa_power", "openmeteo_archive"}
    [] request_class = "current" ->
         {"nasa_power", "openmeteo_archive", "openmeteo_forecast", "met_norway",
          "nws_forecast", "nws_stations"}
    [] request_class = "forecast" -> {"openmeteo_forecast", "met_norway", "nws_forecast"}

FusionRequested == \E i \in 1..Len(req.requested) : req.requested[i] = "data fusion"

SelectionDone ==
  /\ request_type # "none"
  /\ pc \notin {"dl_validate", "dl_select"}
  /\ dl_error \notin {"invalid_source", "source_unavailable"}

FetchedSources == [i \in 1..Len(fetches) |-> fetches[i].source]

\* C13: when "data fusion" is requested, the list of sources queried is exactly
\* the candidate set of the classified request type intersected with the
\* sources available for the coordinate, in candidate-list order; if the
\* intersection is empty the request fails before any fetch is issued.
C13_FusionCandidates ==
  (FusionRequested /\ SelectionDone) =>
    LET expected == CandidateSet(request_type) \cap available_source_ids
    IN IF expected = {}
         THEN pc = "dl_raised" /\ dl_error = "no_source_for_type" /\ fetches = <<>>
         ELSE /\ {sources[i] : i \in 1..Len(sources)} = expected
              /\ IsSubSeq(sources, PossibleSources(request_type))
              /\ IsSubSeq(FetchedSources, sources)

\* a current request far from the USA, the Open-Meteo pair left out by the
\* manager: the two remaining candidates are selected, in candidate order
C13_Witness ==
  /\ req.requested = <<"data fusion">>
  /\ request_type = "current"
  /\ available_source_ids = {"nasa_power", "met_norway"}
  /\ sources = <<"nasa_power", "met_norway">>
  /\ Len(fetches) >= 1

\* the manager reports no source for the coordinate: the request fails before
\* any fetch
C13_EmptyCandidates ==
  /\ FusionRequested
  /\ SelectionDone
  /\ CandidateSet(request_type) \cap available_source_ids = {}
  /\ pc = "dl_raised"

(***************************************************************************)
(* Consolidation of the tables (under SpecDownload).                       *)
(***************************************************************************)
TablesWith(d) == {i \in 1..Len(weather_data_sources) : d \in weather_data_sources[i].dates}

ReturnedDates == UNION {weather_data_sources[i].dates : i \in 1..Len(weather_data_sources)}

\* C14: when several sources return rows, the consolidated table has exactly
\* one row per date that any source returned, and the row of each date is the
\* one of the earliest source, in list order, that returned that date.
C14_FirstSourceWinsPerDate ==
  (pc = "dl_returned" /\ Len(weather_data_sources) > 1) =>
    /\ {r.date : r \in weather_data} = ReturnedDates
    /\ \A d \in ReturnedDates :
         /\ Cardinality({r \in weather_data : r.date = d}) = 1
         /\ \A r \in weather_data :
              r.date = d =>
                \E i \in TablesWith(d) :
                  /\ r.source = weather_data_sources[i].source
                  /\ \A j \in TablesWith(d) : i <= j

\* the first table lacks a day that the second one has: the consolidated
\* table takes rows from both
C14_Witness ==
  /\ pc = "dl_returned"
  /\ Len(weather_data_sources) = 2
  /\ weather_data_sources[1].dates # {}
  /\ weather_data_sources[2].dates \ weather_data_sources[1].dates # {}
  /\ weather_data_sources[1].dates \cap weather_data_sources[2].dates # {}
  /\ {r.source : r \in weather_data}
       = {weather_data_sources[1].source, weather_data_sources[2].source}

(***************************************************************************)
(* Shortfall warning (under SpecDownload).                                 *)
(***************************************************************************)
\* C15: for every source that returns rows, a shortfall warning naming the
\* source is appended exactly when the number of days with a usable row is
\* smaller than the requested period_days, wherever the missing days lie.
C15_ShortfallWarned ==
  \A t \in 1..Len(weather_data_sources) :
    weather_data_sources[t].dates # {} =>
      ((WarningsOf(weather_data_sources[t].source, {"shortfall"}) # {})
         <=> Cardinality(weather_data_sources[t].dates)
               < PeriodDays(req.start, req.end))

(***************************************************************************)
(* Fusion step of process_location (under Spec).                           *)
(***************************************************************************)
InputDays == {r.date : r \in weather_data}

FusionRan == pc \in {"pl_calculate", "pl_store", "pl_done", "responded"} /\ pl_invoked
               /\ weather_data_fused # {}

RowsOfDay(d) == {r \in weather_data_fused : r.date = d}

\* C16: if the fusion engine raises for any day of the range, the pipeline does
\* not abort: _fuse_data returns a table with one row per input day whose rows
\* equal the raw input rows, it emits a warning describing the failure, and
\* Calculating proceeds for every day.
C16_FusionFailureFallsBack ==
  /\ (pc = "pl_calculate" /\ engine_raises # {}) =>
       /\ "error" \notin DOMAIN pl_result
       /\ \A d \in InputDays :
            /\ Cardinality(RowsOfDay(d)) = 1
            /\ \A r \in RowsOfDay(d) : r.record \in weather_data /\ r.record.date = d
       /\ {r.date : r \in weather_data_fused} = InputDays
       /\ Len(fusion_warnings) = 1
       /\ fusion_warnings[1].kind = "fusion_failed"
  /\ (pc = "pl_store" /\ engine_raises # {}) =>
       {e.date : e \in et0_series} = InputDays

\* the engine raised on the first of several days; every day was calculated
C16_Witness ==
  /\ pc = "pl_store"
  /\ Cardinality(InputDays) > 1
  /\ engine_raises = {SetMin(InputDays)}
  /\ {e.date : e \in et0_series} = InputDays

Calculated == DOMAIN et0_result # {}

Invalid(m) == validate_measurements(m).type = "ValueError"

\* C18: for every EToInput with T2M_MAX < T2M_MIN, or with a required field
\* missing or out of range, calculating ETo raises a typed validation error
\* naming the offending field to its caller, and no step of the
\* Penman-Monteith arithmetic runs before it.
C18_InvalidInputRaises ==
  (Calculated /\ Invalid(measurements)) =>
    /\ et0_result.outcome = "raised"
    /\ et0_result.arithmetic = FALSE

\* the parts of C18 that the code keeps: the low-quality result it returns
\* names the offending fields, and no arithmetic ran
C18_ValidationErrorReturned ==
  (Calculated /\ Invalid(measurements)) =>
    /\ et0_result.outcome = "returned"
    /\ et0_result.arithmetic = FALSE
    /\ et0_result.result.error = validate_measurements(measurements)
    /\ et0_result.result.error.fields # <<>>

\* the unclamped result of the combined equation for the current input
Unclamped == PenmanMonteith(measurements, pm)

C19_ZeroDenominator ==
  /\ Calculated /\ ~Invalid(measurements) /\ ~pm.raises
  /\ pm.denominator = 0
  /\ et0_result.result = [et0_mm_day |-> 0, quality |-> "low"]


(***************************************************************************)
(* Claims about the per-day calculation of process_location.               *)
(***************************************************************************)
FusedDays == {r.date : r \in weather_data_fused}

\* step 4 of process_location is over for a fused table with rows
CalculationOver ==
  pl_invoked /\ weather_data_fused # {} /\ pc \in {"pl_store", "pl_done", "responded"}

\* computing this day's ETo raised inside calculate_et0
DayRaised(item) ==
  \/ Invalid(FusedRows[item.raw_data].measurements)
  \/ FusedRows[item.raw_data].pm.raises

EntriesOfDay(series, d) == {e \in series : e.date = d}

\* the series has exactly one entry for every fused day and no other entry
OnePerFusedDay(series) ==
  /\ {e.date : e \in series} = FusedDays
  /\ Cardinality(series) = Cardinality(FusedDays)

C20_ArithmeticRaised ==
  /\ CalculationOver
  /\ \E item \in raw_data_list : item.raw_data = "exp_overflow"


(***************************************************************************)
(* Claims about the storage step of process_location.                      *)
(***************************************************************************)
\* what process_location returns when storage succeeds
ResultWhenStored ==
  [et0_series |-> et0_series,
   eto_data |-> et0_series,
   summary |-> SummarizeSeries(et0_series),
   statistics |-> SummarizeSeries(et0_series)]

\* process_location has returned after its calculation step
ReturnedAfterCalculation ==
  CalculationOver /\ pc \in {"pl_done", "responded"}

\* C21: for any failure of the storage step (a lookup, insert, commit or
\* rollback that raises), process_location returns the same et0_series and
\* summary that it returns when storage succeeds.
C21_StorageNeverChangesResult ==
  ReturnedAfterCalculation =>
    /\ "et0_series" \in DOMAIN pl_result
    /\ pl_result = ResultWhenStored


(***************************************************************************)
(* Claims about detect_anomalies.                                          *)
(***************************************************************************)
Detected == DOMAIN anomaly # {}

Supplied == DOMAIN anomaly_input.historical_normal # {}

NormalMean == DictGet(anomaly_input.historical_normal, "mean", 0)

NormalStd == DictGet(anomaly_input.historical_normal, "std_dev", 100)

Degenerate == ~Supplied \/ NormalMean = 0 \/ NormalStd = 0

ZeroedVerdict == [is_anomaly |-> FALSE, z_score |-> 0, deviation_percent |-> 0]

\* C22: detect_anomalies returns is_anomaly = TRUE only when a historical
\* normal with non-zero mean and non-zero std_dev is supplied and
\* |et0 - mean| / |std_dev| > 2.5; in every degenerate case (no normal
\* supplied, mean = 0 or std_dev = 0) it returns is_anomaly = FALSE,
\* z_score = 0 and deviation_percent = 0.
C22_AnomalyVerdict ==
  Detected =>
    /\ anomaly.is_anomaly =>
         /\ ~Degenerate
         /\ 2 * Abs(anomaly_input.et0 - NormalMean) > 5 * Abs(NormalStd)
    /\ Degenerate => anomaly = ZeroedVerdict

\* the part of C22 the code keeps: the threshold, and the zeroed verdict when
\* a normal is supplied with a zero mean or a zero std_dev
C22_ThresholdAndZeroes ==
  Detected =>
    /\ anomaly.is_anomaly <=>
         (~Degenerate /\ 2 * Abs(anomaly_input.et0 - NormalMean) > 5 * Abs(NormalStd))
    /\ (Supplied /\ Degenerate) => anomaly = ZeroedVerdict
    /\ ~Supplied => (anomaly.z_score = None /\ anomaly.deviation_percent = None)


(***************************************************************************)
(* Claims about the field names that leave download_weather_data.          *)
(***************************************************************************)
\* the canonical fields _validate_measurements looks up in a row
CanonicalVariables ==
  {"T2M_MAX", "T2M_MIN", "T2M_MEAN", "RH2M", "WS2M", "ALLSKY_SFC_SW_DWN",
   "PRECTOTCORR"}

\* the canonical variable a column of a source table carries: the canonical
\* names themselves, the Open-Meteo names of the harmonization dict, the
\* native NASA POWER mean temperature, and the NWS station fields
CanonicalOf ==
  [c \in CanonicalVariables |-> c]
  @@ [temperature_2m_max |-> "T2M_MAX",
      temperature_2m_min |-> "T2M_MIN",
      temperature_2m_mean |-> "T2M_MEAN",
      relative_humidity_2m_mean |-> "RH2M",
      wind_speed_2m_mean |-> "WS2M",
      shortwave_radiation_sum |-> "ALLSKY_SFC_SW_DWN",
      precipitation_sum |-> "PRECTOTCORR",
      T2M |-> "T2M_MEAN",
      temp_celsius |-> "T2M_MEAN",
      humidity_percent |-> "RH2M",
      wind_speed_ms |-> "WS2M",
      precipitation_mm |-> "PRECTOTCORR"]

\* the canonical variables a table reports, under whatever name
Reported(table) ==
  {CanonicalOf[c] : c \in table.columns \cap DOMAIN CanonicalOf}

\* C23: for each source, every canonical variable the source reports leaves
\* download_weather_data under its canonical name, the name the required-field
\* check of calculate_et0 looks up.
C23_CanonicalNamesDelivered ==
  \A i \in DOMAIN weather_data_sources :
    Reported(weather_data_sources[i]) \subseteq weather_data_sources[i].columns

\* reachable: the one table that does deliver every variable canonically
C23_ForecastTableCanonical ==
  \E i \in DOMAIN weather_data_sources :
    /\ weather_data_sources[i].source = "openmeteo_forecast"
    /\ Reported(weather_data_sources[i]) \subseteq weather_data_sources[i].columns
    /\ CanonicalVariables \subseteq weather_data_sources[i].columns


(***************************************************************************)
(* Claims about METNorwayClient.get_daily_forecast.                        *)
(***************************************************************************)
\* the data a fetch for the current call's rounded coordinate, window and
\* variables gives
OwnData ==
  ParsedData(met_call.lat, met_call.lon, met_call.start_date, met_call.end_date,
             met_call.variables)

MetCallOver == met_pc = "done"

\* the call found a cache entry that has not expired
NonExpiredHit ==
  /\ met_call.cached_metadata.found
  /\ met_call.cached_metadata.expires.set
  /\ met_now < met_call.cached_metadata.expires.at

LegalMetCall ==
  met_call.end_date <= Today + 5 /\ met_call.start_date <= met_call.end_date

\* C24: two get_daily_forecast calls share a cache entry only if they agree on
\* the coordinate rounded to 4 decimals, the start date, the end date and the
\* variable set; a call never returns cached data stored by a call differing
\* in any of these, and a non-expired cache hit returns the stored data
\* without issuing an HTTP request.
C24_CacheKeyedAndHitServed ==
  /\ \A key \in DOMAIN met_cache :
       \A r \in met_cache[key].data :
         /\ r.lat = key.lat /\ r.lon = key.lon
         /\ r.date \in key.start..key.end
         /\ CacheKey(r.lat, r.lon, key.start, key.end, r.variables) = key
         /\ JoinSorted(r.variables, 1) = key.vars_str
  /\ (MetCallOver /\ met_result.kind = "returned" /\ met_result.data # {}) =>
       met_result.data = OwnData
  /\ (MetCallOver /\ LegalMetCall /\ NonExpiredHit) =>
       /\ met_result = Returned(met_call.cached_metadata.data)
       /\ http_requests = 0

\* the part of C24 the code keeps: data never crosses from one coordinate,
\* window or variable set to another, and no hit issues an HTTP request
C24_NoLeak ==
  /\ \A key \in DOMAIN met_cache :
       \A r \in met_cache[key].data :
         /\ r.lat = key.lat /\ r.lon = key.lon
         /\ r.date \in key.start..key.end
         /\ JoinSorted(r.variables, 1) = key.vars_str
  /\ (MetCallOver /\ met_result.kind = "returned" /\ met_result.data # {}) =>
       met_result.data = OwnData
  /\ (MetCallOver /\ LegalMetCall /\ NonExpiredHit) => http_requests = 0

\* reachable: a second call was served from the entry the first call stored
C24_HitServed ==
  /\ MetCallOver /\ LegalMetCall /\ NonExpiredHit
  /\ met_result = Returned(met_call.cached_metadata.data)
  /\ met_result.data # {}


\* the retry loop of the current call is running
InRetryLoop == met_pc \in {"request", "delay"}

\* the last request was answered with a successful status or 304
AnsweredSuccessOr304 ==
  met_response.kind = "response" /\ met_response.status \in {200, 203, 304}

Answered429 == met_response.kind = "response" /\ met_response.status = 429

\* the last request failed with an HTTP error other than 429
OtherHTTPError ==
  /\ met_response # NoResponse
  /\ ~AnsweredSuccessOr304
  /\ ~Answered429

RetryDiscipline ==
  /\ http_requests <= retry_attempts
  /\ InRetryLoop => attempt < retry_attempts
  /\ http_requests = IF met_response = NoResponse \/ met_pc = "request"
                       THEN attempt ELSE attempt + 1
  /\ (InRetryLoop /\ met_response # NoResponse) => OtherHTTPError
  /\ AnsweredSuccessOr304 =>
       /\ ~InRetryLoop
       /\ met_result.kind = "returned" \/ met_result = Raised("JSONDecodeError")
  /\ Answered429 =>
       /\ ~InRetryLoop
       /\ met_result = Raised("HTTPStatusError 429")
  /\ OtherHTTPError =>
       IF http_requests < retry_attempts
         THEN InRetryLoop /\ met_result = NoResult
         ELSE /\ ~InRetryLoop
              /\ met_result = Raised(IF met_response.kind = "response"
                                       THEN "HTTPStatusError" ELSE "HTTPError")

\* C30: a get_daily_forecast call always terminates and issues at most
\* retry_attempts HTTP requests: it stops at the first successful or 304
\* response, stops without retry on 429 (the error is raised), waits and
\* retries after any other HTTP error while attempts remain, and raises the
\* last error once the attempts are exhausted.
C30_BoundedRetryTerminates ==
  /\ []RetryDiscipline
  /\ InRetryLoop ~> MetCallOver

\* reachable: every attempt failed and the last error was raised
C30_Witness ==
  /\ MetCallOver
  /\ http_requests = retry_attempts
  /\ OtherHTTPError
  /\ met_result.kind = "raised"


(***************************************************************************)
(* Claims about harmonization.                                             *)
(***************************************************************************)
\* every field of the record handed in carries a canonical name
CanonicalRecord == DOMAIN raw_data # {} /\ DOMAIN raw_data \subseteq CanonicalVariables

\* C25: harmonization is idempotent on canonical records: a record whose
\* fields already carry canonical names comes back unchanged, so harmonizing
\* twice gives the same result as harmonizing once.
C25_HarmonizationIdempotent ==
  CanonicalRecord =>
    /\ Len(harmonized) >= 1 => harmonized[1] = raw_data
    /\ Len(harmonized) >= 2 => harmonized[2] = harmonized[1]

\* the column harmonization of download_weather_data alone keeps the claim,
\* and on every record
C25_ColumnHarmonizationIdempotent ==
  harmonizer = "download_weather_data" =>
    /\ (CanonicalRecord /\ Len(harmonized) >= 1) => harmonized[1] = raw_data
    /\ Len(harmonized) >= 2 => harmonized[2] = harmonized[1]

\* reachable: harmonize_data turned a canonical field into an unmapped one,
\* and then again
C25_PrefixedTwice ==
  /\ CanonicalRecord
  /\ harmonizer = "harmonize_data"
  /\ api_variables = "synced"
  /\ Len(harmonized) = 2
  /\ "unmapped_T2M_MAX" \in DOMAIN harmonized[1]
  /\ "unmapped_unmapped_T2M_MAX" \in DOMAIN harmonized[2]


(***************************************************************************)
(* Claims about the NWS forecast daily aggregation.                        *)
(***************************************************************************)
ReturnedDays == {daily_data[i].date : i \in DOMAIN daily_data}

CoveredHours(day) == Cardinality({r \in hourly_data : r.date = day})

PeriodErrors ==
  {"historical_period", "current_period", "forecast_end", "forecast_start"}

\* C27: every request whose window the /calculate route accepts as legal for
\* its period_type is also accepted by the request-level period validation of
\* download_weather_data: no period-length or date-bound error is raised for
\* it, whatever class classify_request_type assigns to the window.
C27_RouteLegalPassesDownloadValidation ==
  pl_invoked => dl_error \notin PeriodErrors

\* reachable: a window the route accepted, rejected by download_weather_data
\* for the length the current class asks for
C27_LegalForecastRejected ==
  /\ pl_invoked
  /\ http.period_type = "forecast"
  /\ request_type = "none" \/ request_type = "current"
  /\ dl_error = "current_period"


(***************************************************************************)
(* The answer of /calculate after a pipeline error.                        *)
(***************************************************************************)
\* process_location ended in {"error": ...}
PipelineError == pl_invoked /\ "error" \in DOMAIN pl_result

\* C28: /calculate never answers with status 'success' for a run in which the
\* pipeline ended in an error outcome: every pipeline error reaches the caller
\* as a typed 4xx- or 5xx-class error, and a 'success' response always carries
\* the et0_series computed by the pipeline.
C28_NoSuccessAfterPipelineError ==
  (pc = "responded" /\ pl_invoked) =>
    /\ PipelineError =>
         /\ response.status # "success"
         /\ response.status_code >= 400
    /\ response.status = "success" =>
         /\ "et0_series" \in DOMAIN pl_result
         /\ response.data = pl_result.et0_series

\* reachable: no source produced data and the answer is 'success' with no data
C28_SuccessAfterNoData ==
  /\ pc = "responded"
  /\ pl_invoked
  /\ pl_result = [error |-> "no_weather_data"]
  /\ response.status = "success"
  /\ response.status_code = 200
  /\ response.data = {}


(***************************************************************************)
(* Claims about the elevation handed to the engine (under SpecElevation).  *)
(***************************************************************************)
LegalElevation == elevation # None /\ -500 <= elevation /\ elevation <= 9000

\* C29: for every elevation supplied within [-500, 9000] m, including 0, the
\* pipeline passes exactly that value as elevation_m to the engine for every
\* day of the series, so a legal supplied elevation never causes a day's input
\* to be rejected for a missing elevation_m.
C29_ElevationPassedToEngine ==
  LegalElevation =>
    \A c \in engine_calls :
      /\ "elevation_m" \in DOMAIN c.measurements
      /\ c.measurements["elevation_m"] = elevation
      /\ c.error = NoError

\* what the code keeps: a legal elevation other than zero reaches the engine
\* unchanged on every day
C29_NonZeroElevationPassed ==
  (LegalElevation /\ elevation # 0) =>
    \A c \in engine_calls :
      /\ "elevation_m" \in DOMAIN c.measurements
      /\ c.measurements["elevation_m"] = elevation
      /\ c.error = NoError

\* reachable: elevation 0 was supplied and every day was rejected for the
\* missing elevation_m
C29_SeaLevelRejected ==
  /\ elevation = 0
  /\ entry_point = "process_location"
  /\ Cardinality(engine_calls) = Cardinality(fused_dates)
  /\ \A c \in engine_calls : c.error = ValueError(<<"elevation_m">>)

====
